---------------------------- MODULE Spec2Model ----------------------------
(***************************************************************************)
(* Design-token tools: the schema validator (validate_tokens.py) and the   *)
(* three generators (generate_css.py, generate_kotlin.py,                  *)
(* generate_swift.py).                                                     *)
(*                                                                         *)
(* Python strings are sequences of one-character strings.  A JSON value is *)
(* a record [t, v]: t is the JSON type and v the payload; an object is the *)
(* sequence of its [k, v] members in document order (a Python dict keeps   *)
(* insertion order).  A Python call that can raise returns a record with a *)
(* field "raised".                                                         *)
(***************************************************************************)
EXTENDS Integers, Sequences, FiniteSets, TLC

VARIABLES fn, arg, ret, pc, tool, args, input, data, errors, outputs, stdout, stderr, files, exitCode

vars == <<fn, arg, ret, pc, tool, args, input, data, errors, outputs, stdout, stderr, files, exitCode>>

callVars == <<fn, arg, ret>>

runVars == <<pc, tool, args, input, data, errors, outputs, stdout, stderr, files, exitCode>>

(***************************************************************************)
(* Characters and strings                                                  *)
(***************************************************************************)
NL == "\n"

DigitChars == {"0", "1", "2", "3", "4", "5", "6", "7", "8", "9"}

LowerChars == {"a", "b", "c", "d", "e", "f", "g", "h", "i", "j", "k", "l", "m", "n", "o", "p", "q", "r", "s", "t", "u", "v", "w", "x", "y", "z"}

UpperChars == {"A", "B", "C", "D", "E", "F", "G", "H", "I", "J", "K", "L", "M", "N", "O", "P", "Q", "R", "S", "T", "U", "V", "W", "X", "Y", "Z"}

\* \w of Python's re for the ASCII characters used here
WordChars == DigitChars \cup LowerChars \cup UpperChars \cup {"_"}

DigitVal(c) ==
    CASE c = "0" -> 0 [] c = "1" -> 1 [] c = "2" -> 2 [] c = "3" -> 3 [] c = "4" -> 4
      [] c = "5" -> 5 [] c = "6" -> 6 [] c = "7" -> 7 [] c = "8" -> 8 [] c = "9" -> 9

DigitChar(d) ==
    CASE d = 0 -> "0" [] d = 1 -> "1" [] d = 2 -> "2" [] d = 3 -> "3" [] d = 4 -> "4"
      [] d = 5 -> "5" [] d = 6 -> "6" [] d = 7 -> "7" [] d = 8 -> "8" [] d = 9 -> "9"

RECURSIVE Pow10(_)
Pow10(k) == IF k = 0 THEN 1 ELSE 10 * Pow10(k - 1)

RECURSIVE NatOf(_)
\* the number a string of decimal digits denotes ("" denotes 0)
NatOf(ds) == IF ds = <<>> THEN 0 ELSE 10 * NatOf(SubSeq(ds, 1, Len(ds) - 1)) + DigitVal(ds[Len(ds)])

RECURSIVE NatStr(_)
\* str(n) for an int n >= 0
NatStr(n) == IF n < 10 THEN <<DigitChar(n)>> ELSE NatStr(n \div 10) \o <<DigitChar(n % 10)>>

RECURSIVE PadStr(_, _)
\* n written with exactly w digits, zero-padded on the left
PadStr(n, w) == IF w = 0 THEN <<>> ELSE PadStr(n \div 10, w - 1) \o <<DigitChar(n % 10)>>

RECURSIVE StripZeros(_)
StripZeros(ds) == IF ds # <<>> /\ ds[Len(ds)] = "0" THEN StripZeros(SubSeq(ds, 1, Len(ds) - 1)) ELSE ds

IsDigits(q) == q # <<>> /\ \A i \in 1..Len(q) : q[i] \in DigitChars

StartsWith(s, p) == Len(s) >= Len(p) /\ SubSeq(s, 1, Len(p)) = p

EndsWith(s, p) == Len(s) >= Len(p) /\ SubSeq(s, Len(s) - Len(p) + 1, Len(s)) = p

\* Python's "needle in haystack" for two strings
Contains(s, p) == \E i \in 1..(Len(s) - Len(p) + 1) : SubSeq(s, i, i + Len(p) - 1) = p

\* the subject a trailing "$" of Python's re is tested against: "$" also
\* matches just before a newline that ends the string
DollarEnds(s) == {s} \cup (IF s # <<>> /\ s[Len(s)] = NL THEN {SubSeq(s, 1, Len(s) - 1)} ELSE {})

(***************************************************************************)
(* Unit conversion: px_to_rem, convert_value, px_to_dp, px_to_cgfloat      *)
(***************************************************************************)
\* -?\d+(?:\.\d+)?
IsNumberText(q) ==
    LET u == IF q # <<>> /\ q[1] = "-" THEN Tail(q) ELSE q
        dots == {i \in 1..Len(u) : u[i] = "."}
    IN  IF dots = {} THEN IsDigits(u)
        ELSE \E i \in dots : dots = {i} /\ IsDigits(SubSeq(u, 1, i - 1)) /\ IsDigits(SubSeq(u, i + 1, Len(u)))

\* PX_RE.match(value): ^(-?\d+(?:\.\d+)?)px$ ; [ok, g1] with g1 the group
PX_RE_match(value) ==
    LET hits == {t \in DollarEnds(value) : EndsWith(t, <<"p","x">>) /\ IsNumberText(SubSeq(t, 1, Len(t) - 2))}
    IN  IF hits = {} THEN [ok |-> FALSE, g1 |-> <<>>]
        ELSE LET t == CHOOSE h \in hits : TRUE IN [ok |-> TRUE, g1 |-> SubSeq(t, 1, Len(t) - 2)]

\* float(text) for text matching -?\d+(?:\.\d+)? : the value
\* (+/-)(ip + fs / 10^dn), kept exactly.  A Python float holds it exactly or
\* to 1 part in 2^53, which no result below can tell apart within the
\* magnitudes used here (below 10^6 px, at most two fraction digits; the
\* inputs drawn for ties of the "g" format are binary fractions).
FloatOf(q) ==
    LET neg == q[1] = "-"
        u == IF neg THEN Tail(q) ELSE q
        dots == {i \in 1..Len(u) : u[i] = "."}
        cut == IF dots = {} THEN Len(u) + 1 ELSE CHOOSE i \in dots : TRUE
        fr == SubSeq(u, cut + 1, Len(u))
    IN  [neg |-> neg, ip |-> NatOf(SubSeq(u, 1, cut - 1)), fs |-> NatOf(fr), dn |-> Len(fr)]

FloatIsZero(x) == x.ip = 0 /\ x.fs = 0

FloatIsWhole(x) == x.fs = 0

\* x == n for a float x and an int n >= 0 (-0.0 == 0 holds)
FloatEqInt(x, n) == x.fs = 0 /\ x.ip = n /\ (x.neg => n = 0)

RemBase == 16

PillSentinel == 9999

\* px / 16; exact in binary floating point (a division by a power of two)
Div16(x) ==
    LET den == Pow10(x.dn)
        num == x.ip * den + x.fs
        r == num % (RemBase * den)
    IN  [neg |-> x.neg, ip |-> num \div (RemBase * den), fs |-> r * (10000 \div RemBase), dn |-> x.dn + 4]

\* str(int(x)) for a whole float x
IntStr(x) == (IF x.neg /\ x.ip # 0 THEN <<"-">> ELSE <<>>) \o NatStr(x.ip)

\* ip.fraction with the fraction's trailing zeros (and a bare point) dropped
FixedStr(neg, ip, fs, dn) ==
    LET fr == StripZeros(PadStr(fs, dn))
    IN  (IF neg THEN <<"-">> ELSE <<>>) \o NatStr(ip) \o (IF fr = <<>> THEN <<>> ELSE <<".">> \o fr)

\* number of decimal digits of n >= 1
NumDigits(n) == Len(NatStr(n))

\* significant digits of the "g" presentation type
GPrecision == 6

\* f"{x:g}" for a non-zero x with 0.0001 <= |x| < 10^6 (fixed notation):
\* six significant digits, round-half-even on the exact value, trailing
\* zeros removed
FormatG(x) ==
    LET X == IF x.ip >= 1 THEN NumDigits(x.ip) - 1 ELSE 0 - (x.dn - NumDigits(x.fs) + 1)
        d == GPrecision - 1 - X
    IN  IF d >= x.dn THEN FixedStr(x.neg, x.ip, x.fs, x.dn)
        ELSE LET unit == Pow10(x.dn - d)
                 q == x.fs \div unit
                 rm == x.fs % unit
                 T == x.ip * Pow10(d) + q
                 up == 2 * rm > unit \/ (2 * rm = unit /\ T % 2 = 1)
                 T2 == IF up THEN T + 1 ELSE T
             IN  FixedStr(x.neg, T2 \div Pow10(d), T2 % Pow10(d), d)

\* str(x) for a float x that is not whole, 0.0001 <= |x| < 10^16: the
\* shortest decimal that reads back as x
FloatStr(x) == FixedStr(x.neg, x.ip, x.fs, x.dn)

\* px_to_rem without the 9999 special case
px_to_rem_no_sentinel(value) ==
    LET m == PX_RE_match(value)
    IN  IF ~m.ok THEN value
        ELSE LET px == FloatOf(m.g1)
             IN  IF FloatIsZero(px) THEN <<"0">>
                 ELSE LET rem == Div16(px)
                      IN  IF FloatIsWhole(rem) THEN IntStr(rem) \o <<"r","e","m">>
                          ELSE FormatG(rem) \o <<"r","e","m">>

\* px_to_rem with the unit of its input kept on its output
px_to_rem_keeping_px(value) ==
    LET m == PX_RE_match(value)
    IN  IF ~m.ok THEN value
        ELSE LET px == FloatOf(m.g1)
             IN  IF FloatEqInt(px, PillSentinel) THEN <<"9","9","9","9","p","x">>
                 ELSE IF FloatIsZero(px) THEN <<"0">>
                 ELSE LET rem == Div16(px)
                      IN  IF FloatIsWhole(rem) THEN IntStr(rem) \o <<"p","x">>
                          ELSE FormatG(rem) \o <<"p","x">>

px_to_rem(value) ==
    LET m == PX_RE_match(value)
    IN  IF ~m.ok THEN value
        ELSE LET px == FloatOf(m.g1)
             IN  IF FloatEqInt(px, PillSentinel) THEN <<"9","9","9","9","p","x">>
                 ELSE IF FloatIsZero(px) THEN <<"0">>
                 ELSE LET rem == Div16(px)
                      IN  IF FloatIsWhole(rem) THEN IntStr(rem) \o <<"r","e","m">>
                          ELSE FormatG(rem) \o <<"r","e","m">>

PASSTHROUGH_TYPES == {<<"c","o","l","o","r">>, <<"f","o","n","t","F","a","m","i","l","y">>, <<"f","o","n","t","W","e","i","g","h","t">>, <<"f","o","n","t","S","o","u","r","c","e">>, <<"n","u","m","b","e","r">>, <<"s","h","a","d","o","w">>}

\* convert_value for a string value and a string token type
convert_value(value, token_type) ==
    IF token_type \in PASSTHROUGH_TYPES THEN value
    ELSE IF token_type = <<"d","i","m","e","n","s","i","o","n">>
         THEN IF value = <<"0">> THEN <<"0">> ELSE px_to_rem(value)
         ELSE value

\* px_to_dp that always prints int(px)
px_to_dp_truncating(value) ==
    LET m == PX_RE_match(value)
    IN  IF ~m.ok THEN value ELSE IntStr([FloatOf(m.g1) EXCEPT !.fs = 0, !.dn = 0])

px_to_dp(value) ==
    LET m == PX_RE_match(value)
    IN  IF ~m.ok THEN value
        ELSE LET px == FloatOf(m.g1)
             IN  IF FloatIsWhole(px) THEN IntStr(px) ELSE FloatStr(px)

px_to_cgfloat(value) ==
    LET m == PX_RE_match(value)
    IN  IF ~m.ok THEN value
        ELSE LET px == FloatOf(m.g1)
             IN  IF FloatIsWhole(px) THEN IntStr(px) ELSE FloatStr(px)


(***************************************************************************)
(* JSON values and Python dicts                                            *)
(***************************************************************************)
JStr(s) == [t |-> "str", v |-> s]

JInt(n) == [t |-> "int", v |-> n]

\* a float, (+/-)(ip + fs / 10^dn)
JFloat(x) == [t |-> "float", v |-> x]

JBool(b) == [t |-> "bool", v |-> b]

JNull == [t |-> "null", v |-> <<>>]

JList(items) == [t |-> "list", v |-> items]

\* members: a sequence of [k |-> key, v |-> value] with distinct keys
JDict(members) == [t |-> "dict", v |-> members]

\* a member of a dict
Mem(key, val) == [k |-> key, v |-> val]

IsDict(j) == j.t = "dict"

IsStr(j) == j.t = "str"

\* key in d, for a dict d
HasKey(d, key) == \E i \in 1..Len(d.v) : d.v[i].k = key

\* d[key], for a dict d that has the key
GetKey(d, key) == d.v[CHOOSE i \in 1..Len(d.v) : d.v[i].k = key].v

\* d.get(key, default), for a dict d
GetOr(d, key, default) == IF HasKey(d, key) THEN GetKey(d, key) ELSE default

\* Python truthiness
Truthy(j) ==
    CASE j.t \in {"dict", "list", "str"} -> j.v # <<>>
      [] j.t = "int" -> j.v # 0
      [] j.t = "float" -> ~(j.v.ip = 0 /\ j.v.fs = 0)
      [] j.t = "bool" -> j.v
      [] j.t = "null" -> FALSE

\* hashable(j): usable as a dict key or a set member
Hashable(j) == j.t \notin {"dict", "list"}

\* a Python dict from strings to strings: a function on the set of its keys
MapGet(m, key, default) == IF key \in DOMAIN m THEN m[key] ELSE default

MapPut(m, key, val) == (key :> val) @@ m

(***************************************************************************)
(* generate_css.py: variable names, the token map, reference resolution    *)
(***************************************************************************)
SECTION_PREFIX == (<<"c","o","l","o","r">> :> <<"c","o","l","o","r">>) @@ (<<"s","p","a","c","i","n","g">> :> <<"s","p","a","c","e">>) @@ (<<"b","o","r","d","e","r","R","a","d","i","u","s">> :> <<"r","a","d","i","u","s">>) @@ (<<"s","h","a","d","o","w">> :> <<"s","h","a","d","o","w">>)

TYPOGRAPHY_PREFIX ==
    (<<"f","o","n","t","-","f","a","m","i","l","y","-","h","e","a","d","i","n","g">> :> <<"f","o","n","t","-","h","e","a","d","i","n","g">>) @@ (<<"f","o","n","t","-","f","a","m","i","l","y","-","b","o","d","y">> :> <<"f","o","n","t","-","b","o","d","y">>)
      @@ (<<"f","o","n","t","-","f","a","m","i","l","y","-","m","o","n","o">> :> <<"f","o","n","t","-","m","o","n","o">>) @@ (<<"f","o","n","t","-","s","i","z","e">> :> <<"f","o","n","t","-","s","i","z","e">>)
      @@ (<<"f","o","n","t","-","w","e","i","g","h","t">> :> <<"f","o","n","t","-","w","e","i","g","h","t">>) @@ (<<"l","i","n","e","-","h","e","i","g","h","t">> :> <<"l","i","n","e","-","h","e","i","g","h","t">>)
      @@ (<<"l","e","t","t","e","r","-","s","p","a","c","i","n","g">> :> <<"l","e","t","t","e","r","-","s","p","a","c","i","n","g">>)

\* build_css_variable_name; subkey <<>> stands for None and for "", which
\* "if subkey:" does not tell apart
build_css_variable_name(section, key, subkey) ==
    IF section = <<"t","y","p","o","g","r","a","p","h","y">>
    THEN IF subkey # <<>>
         THEN <<"-","-">> \o MapGet(TYPOGRAPHY_PREFIX, key, key) \o <<"-">> \o subkey
         ELSE <<"-","-">> \o MapGet(TYPOGRAPHY_PREFIX, key, key)
    ELSE <<"-","-">> \o MapGet(SECTION_PREFIX, section, section) \o <<"-">> \o key

VarRef(css_name) == <<"v","a","r","(">> \o css_name \o <<")">>

RECURSIVE FlatTokenMap(_, _, _)
\* the inner loop of build_token_map over a flat section's members
FlatTokenMap(section, members, m) ==
    IF members = <<>> THEN m
    ELSE LET key == Head(members).k
             val == Head(members).v
             m2 == IF IsDict(val) /\ HasKey(val, <<"v","a","l","u","e">>)
                   THEN MapPut(m, section \o <<".">> \o key, VarRef(build_css_variable_name(section, key, <<>>)))
                   ELSE m
         IN  FlatTokenMap(section, Tail(members), m2)

RECURSIVE GroupTokenMap(_, _, _)
\* the loop of build_token_map over the members of a typography group
GroupTokenMap(key, members, m) ==
    IF members = <<>> THEN m
    ELSE LET subkey == Head(members).k
             subval == Head(members).v
             m2 == IF IsDict(subval) /\ HasKey(subval, <<"v","a","l","u","e">>)
                   THEN MapPut(m, <<"t","y","p","o","g","r","a","p","h","y",".">> \o key \o <<".">> \o subkey, VarRef(build_css_variable_name(<<"t","y","p","o","g","r","a","p","h","y">>, key, subkey)))
                   ELSE m
         IN  GroupTokenMap(key, Tail(members), m2)

RECURSIVE TypographyTokenMap(_, _)
\* the loop of build_token_map over the members of typography
TypographyTokenMap(members, m) ==
    IF members = <<>> THEN m
    ELSE LET key == Head(members).k
             val == Head(members).v
             m2 == IF IsDict(val) /\ HasKey(val, <<"v","a","l","u","e">>) /\ HasKey(val, <<"t","y","p","e">>)
                   THEN MapPut(m, <<"t","y","p","o","g","r","a","p","h","y",".">> \o key, VarRef(build_css_variable_name(<<"t","y","p","o","g","r","a","p","h","y">>, key, <<>>)))
                   ELSE IF IsDict(val) THEN GroupTokenMap(key, val.v, m)
                   ELSE m
         IN  TypographyTokenMap(Tail(members), m2)

TokenMapSections == <<<<"c","o","l","o","r">>, <<"s","p","a","c","i","n","g">>, <<"b","o","r","d","e","r","R","a","d","i","u","s">>, <<"s","h","a","d","o","w">>>>

RECURSIVE SectionsTokenMap(_, _, _)
SectionsTokenMap(d, sections, m) ==
    IF sections = <<>> THEN m
    ELSE LET section == Head(sections)
             m2 == IF HasKey(d, section) THEN FlatTokenMap(section, GetKey(d, section).v, m) ELSE m
         IN  SectionsTokenMap(d, Tail(sections), m2)

\* build_token_map(data) for a dict data; .items() of a section that is not
\* a dict raises
build_token_map(d) ==
    IF \/ \E i \in 1..Len(TokenMapSections) : HasKey(d, TokenMapSections[i]) /\ ~IsDict(GetKey(d, TokenMapSections[i]))
       \/ HasKey(d, <<"t","y","p","o","g","r","a","p","h","y">>) /\ ~IsDict(GetKey(d, <<"t","y","p","o","g","r","a","p","h","y">>))
    THEN [raised |-> TRUE, val |-> <<>>]
    ELSE LET m == SectionsTokenMap(d, TokenMapSections, <<>>)
         IN  [raised |-> FALSE,
              val |-> IF HasKey(d, <<"t","y","p","o","g","r","a","p","h","y">>) THEN TypographyTokenMap(GetKey(d, <<"t","y","p","o","g","r","a","p","h","y">>).v, m) ELSE m]

\* the end of the match of TOKEN_REF_RE = \{([^}]+)\} that starts at i, or 0
RefEnd(v, i) ==
    IF v[i] = "{" /\ i + 1 <= Len(v) /\ v[i + 1] # "}" /\ (\E j \in (i + 2)..Len(v) : v[j] = "}")
    THEN CHOOSE j \in (i + 2)..Len(v) : v[j] = "}" /\ \A h \in (i + 2)..(j - 1) : v[h] # "}"
    ELSE 0

RECURSIVE SubRefs(_, _, _)
\* TOKEN_REF_RE.sub(replacer, value) from position i on
SubRefs(v, token_map, i) ==
    IF i > Len(v) THEN <<>>
    ELSE LET j == RefEnd(v, i)
         IN  IF j = 0 THEN <<v[i]>> \o SubRefs(v, token_map, i + 1)
             ELSE MapGet(token_map, SubSeq(v, i + 1, j - 1), SubSeq(v, i, j)) \o SubRefs(v, token_map, j + 1)

RECURSIVE SubRefsDropping(_, _, _)
SubRefsDropping(v, token_map, i) ==
    IF i > Len(v) THEN <<>>
    ELSE LET j == RefEnd(v, i)
         IN  IF j = 0 THEN <<v[i]>> \o SubRefsDropping(v, token_map, i + 1)
             ELSE MapGet(token_map, SubSeq(v, i + 1, j - 1), <<>>) \o SubRefsDropping(v, token_map, j + 1)

\* resolve_token_ref whose replacer falls back to "" for an unknown path
resolve_token_ref_dropping(value, token_map) == SubRefsDropping(value, token_map, 1)

\* resolve_token_ref(value, token_map) for a string value
resolve_token_ref(value, token_map) == SubRefs(value, token_map, 1)

(***************************************************************************)
(* Calls of the conversion functions                                       *)
(***************************************************************************)
MaxIntDigits == 4

MaxAnyLen == 4

\* digits the integer parts are written with
IntAlphabet == {"0", "1", "6", "9"}

IntParts == UNION {[1..n -> IntAlphabet] : n \in 1..MaxIntDigits} \cup {<<"4">>, <<"2","4">>, <<"3","2">>, <<"1","6","0">>}

\* fraction parts: binary fractions, which a float holds exactly
FracParts == {<<>>, <<".","0">>, <<".","5">>, <<".","5","0">>, <<".","2","5">>, <<".","0","0">>}

PxTexts == {sg \o ip \o fr \o <<"p","x">> : sg \in {<<>>, <<"-">>}, ip \in IntParts, fr \in FracParts}

AnyAlphabet == {"1", ".", "-", "p", "x", NL}

AnyTexts == UNION {[1..n -> AnyAlphabet] : n \in 0..MaxAnyLen}

OtherTexts == {<<"n","o","n","e">>, <<"1","r","e","m">>, <<"1",".","5","r","e","m">>, <<"1","6">>, <<"1",".","5","e","m">>, <<" ","1","6","p","x">>, <<"1","6","P","X">>, <<"0">>, <<"1","6","p","x","\n">>, <<"1","6","p","x"," ">>, <<"1",".","5","p","x","\n">>, <<"9","9","9","9","p","x","\n">>, <<"0","p","x","\n">>, <<"+","1","6","p","x">>, <<"1","6","p","x","p","x">>}

ConvTexts == PxTexts \cup AnyTexts \cup OtherTexts

ConvTypes == {<<"d","i","m","e","n","s","i","o","n">>, <<"c","o","l","o","r">>, <<"n","u","m","b","e","r">>, <<"f","o","n","t","W","e","i","g","h","t">>, <<"o","p","a","c","i","t","y">>}

NoRet == [done |-> FALSE, val |-> <<>>]

IdleRun ==
    /\ pc = "idle"
    /\ tool = "none"
    /\ args = <<>>
    /\ input = <<>>
    /\ data = <<>>
    /\ errors = <<>>
    /\ outputs = <<>>
    /\ stdout = <<>>
    /\ stderr = <<>>
    /\ files = <<>>
    /\ exitCode = -1

InitConvert ==
    /\ fn \in {"px_to_rem", "convert_value", "px_to_dp", "px_to_cgfloat"}
    /\ arg \in {[value |-> v, type |-> t] : v \in ConvTexts, t \in ConvTypes}
    /\ fn # "convert_value" => arg.type = <<"d","i","m","e","n","s","i","o","n">>
    /\ ret = NoRet
    /\ IdleRun

CallPxToRem ==
    /\ fn = "px_to_rem" /\ ~ret.done
    /\ ret' = [done |-> TRUE, val |-> px_to_rem(arg.value)]
    /\ UNCHANGED <<fn, arg, runVars>>

CallConvertValue ==
    /\ fn = "convert_value" /\ ~ret.done
    /\ ret' = [done |-> TRUE, val |-> convert_value(arg.value, arg.type)]
    /\ UNCHANGED <<fn, arg, runVars>>

CallPxToDp ==
    /\ fn = "px_to_dp" /\ ~ret.done
    /\ ret' = [done |-> TRUE, val |-> px_to_dp(arg.value)]
    /\ UNCHANGED <<fn, arg, runVars>>

CallPxToCgfloat ==
    /\ fn = "px_to_cgfloat" /\ ~ret.done
    /\ ret' = [done |-> TRUE, val |-> px_to_cgfloat(arg.value)]
    /\ UNCHANGED <<fn, arg, runVars>>

NextConvert == CallPxToRem \/ CallConvertValue \/ CallPxToDp \/ CallPxToCgfloat

SpecConvert == InitConvert /\ [][NextConvert]_vars


(***************************************************************************)
(* Properties of the conversions                                           *)
(***************************************************************************)
\* the grammar of a pixel length: optional "-", digits, optional ".digits", "px"
StrictPx(s) == EndsWith(s, <<"p","x">>) /\ IsNumberText(SubSeq(s, 1, Len(s) - 2))

NumText(s) == SubSeq(s, 1, Len(s) - 2)

\* the digits of a decimal's fraction without its trailing zeros
FracDigits(x) == StripZeros(PadStr(x.fs, x.dn))

RECURSIVE StripLeadingZeros(_)
StripLeadingZeros(ds) == IF ds # <<>> /\ ds[1] = "0" THEN StripLeadingZeros(Tail(ds)) ELSE ds

\* number of significant digits of a decimal
SigDigits(x) == Len(StripLeadingZeros(StripZeros((IF x.ip = 0 THEN <<>> ELSE NatStr(x.ip)) \o PadStr(x.fs, x.dn))))

\* decimal exponent of a non-zero decimal
Exponent(x) == IF x.ip >= 1 THEN NumDigits(x.ip) - 1 ELSE 0 - (x.dn - NumDigits(x.fs) + 1)

Abs(n) == IF n < 0 THEN 0 - n ELSE n

Max(a, b) == IF a > b THEN a ELSE b

\* |16 * b - x| in units of 10^-s, s the larger number of fraction digits
SixteenGap(b, x) ==
    LET s == Max(b.dn, x.dn)
    IN  Abs(16 * (b.ip * Pow10(b.dn) + b.fs) * Pow10(s - b.dn) - (x.ip * Pow10(x.dn) + x.fs) * Pow10(s - x.dn))

\* b is x / 16 to within half a unit of b's sixth significant digit
RoundedSixteenth(b, x) ==
    LET s == Max(b.dn, x.dn)
        k == s - (GPrecision - 1) + Exponent(b)
    IN  SigDigits(b) <= GPrecision /\ k >= 0 /\ SixteenGap(b, x) <= 8 * Pow10(k)

\* the result of a web conversion of a pixel length: fn is px_to_rem, or
\* convert_value of a dimension token
WebCall == ret.done /\ (fn = "px_to_rem" \/ (fn = "convert_value" /\ arg.type = <<"d","i","m","e","n","s","i","o","n">>))

\* shape of a rem result: a number without trailing zeros, the sign kept, "rem"
RemShape(out, x) ==
    /\ EndsWith(out, <<"r","e","m">>)
    /\ LET body == SubSeq(out, 1, Len(out) - 3)
       IN  /\ IsNumberText(body)
           /\ (\E i \in 1..Len(body) : body[i] = ".") => body[Len(body)] # "0"
           /\ FloatOf(body).neg = x.neg

RemBody(out) == FloatOf(SubSeq(out, 1, Len(out) - 3))

\* C8 as amended: a pixel length converts to its sixteenth in rem, printed
\* with at most six significant digits (exact when the sixteenth has no more
\* than six, rounded to six otherwise) and no trailing ".0"; 0 gives the
\* unitless "0", also for the literal "0" of a dimension token; 9999 stays
\* "9999px"
C8_PxToRemSixDigits ==
    WebCall =>
        /\ (fn = "convert_value" /\ arg.value = <<"0">>) => ret.val = <<"0">>
        /\ StrictPx(arg.value) =>
             LET x == FloatOf(NumText(arg.value))
             IN  IF FloatIsZero(x) THEN ret.val = <<"0">>
                 ELSE IF FloatEqInt(x, 9999) THEN ret.val = <<"9","9","9","9","p","x">>
                 ELSE /\ RemShape(ret.val, x)
                      /\ IF SigDigits(Div16(x)) <= GPrecision
                         THEN SixteenGap(RemBody(ret.val), x) = 0
                         ELSE RoundedSixteenth(RemBody(ret.val), x)

\* C8 as stated: the rem number is the pixel magnitude divided by 16
C8_PxToRemExact ==
    WebCall =>
        /\ (fn = "convert_value" /\ arg.value = <<"0">>) => ret.val = <<"0">>
        /\ StrictPx(arg.value) =>
             LET x == FloatOf(NumText(arg.value))
             IN  IF FloatIsZero(x) THEN ret.val = <<"0">>
                 ELSE IF FloatEqInt(x, 9999) THEN ret.val = <<"9","9","9","9","p","x">>
                 ELSE RemShape(ret.val, x) /\ SixteenGap(RemBody(ret.val), x) = 0

C8_Witness ==
    /\ fn = "convert_value" /\ arg.type = <<"d","i","m","e","n","s","i","o","n">> /\ ret.done
    /\ arg.value = <<"1","6","0","1","p","x">>
    /\ ret.val = <<"1","0","0",".","0","6","2","r","e","m">>

\* C9: a string outside the pixel grammar comes back unchanged from
\* px_to_rem, px_to_dp and px_to_cgfloat
C9_NonMatchingPassesThrough ==
    (ret.done /\ fn \in {"px_to_rem", "px_to_dp", "px_to_cgfloat"} /\ ~StrictPx(arg.value)) => ret.val = arg.value

\* C19: what px_to_rem returns it returns unchanged when it is converted
\* again; "1rem", "1.5rem", "0" and "9999px" come back as they are
C19_PxToRemIdempotent ==
    (fn = "px_to_rem" /\ ret.done) =>
        /\ px_to_rem(ret.val) = ret.val
        /\ arg.value \in {<<"1","r","e","m">>, <<"1",".","5","r","e","m">>, <<"0">>, <<"9","9","9","9","p","x">>} => ret.val = arg.value

\* a pixel length has been converted to a rem length
C19_Witness ==
    /\ fn = "px_to_rem" /\ ret.done
    /\ arg.value = <<"2","4","p","x">> /\ ret.val = <<"1",".","5","r","e","m">>
    /\ px_to_rem(ret.val) = <<"1",".","5","r","e","m">>

Ok(val) == [raised |-> FALSE, val |-> val]

Raise == [raised |-> TRUE, val |-> <<>>]

\* F of the value of an expression evaluated once (a local variable of the code)
Bind(expr, F(_)) == CHOOSE y \in {F(x) : x \in {expr}} : TRUE

\* what follows a call that can raise: F of what it returned, or the exception
Then(r, F(_)) == CHOOSE y \in {IF x.raised THEN Raise ELSE F(x.val) : x \in {r}} : TRUE

\* type(j).__name__
TypeName(j) ==
    CASE j.t = "dict" -> <<"d","i","c","t">> [] j.t = "list" -> <<"l","i","s","t">> [] j.t = "str" -> <<"s","t","r">> [] j.t = "int" -> <<"i","n","t">>
      [] j.t = "float" -> <<"f","l","o","a","t">> [] j.t = "bool" -> <<"b","o","o","l">> [] OTHER -> <<"N","o","n","e","T","y","p","e">>

SignedStr(n) == IF n < 0 THEN <<"-">> \o NatStr(0 - n) ELSE NatStr(n)

RECURSIVE PyStr(_), PyRepr(_), ReprItems(_, _), ReprMembers(_, _)
\* str(j), as an f-string formats j; strings of the documents hold no quote,
\* backslash or control character
PyStr(j) ==
    CASE j.t = "str" -> j.v
      [] j.t = "int" -> SignedStr(j.v)
      [] j.t = "float" -> FloatStr(j.v)
      [] j.t = "bool" -> IF j.v THEN <<"T","r","u","e">> ELSE <<"F","a","l","s","e">>
      [] j.t = "null" -> <<"N","o","n","e">>
      [] j.t = "list" -> <<"[">> \o ReprItems(j.v, 1) \o <<"]">>
      [] OTHER -> <<"{">> \o ReprMembers(j.v, 1) \o <<"}">>

PyRepr(j) == IF j.t = "str" THEN <<"'">> \o j.v \o <<"'">> ELSE PyStr(j)

ReprItems(items, i) ==
    IF i > Len(items) THEN <<>>
    ELSE (IF i > 1 THEN <<","," ">> ELSE <<>>) \o PyRepr(items[i]) \o ReprItems(items, i + 1)

ReprMembers(ms, i) ==
    IF i > Len(ms) THEN <<>>
    ELSE (IF i > 1 THEN <<","," ">> ELSE <<>>) \o <<"'">> \o ms[i].k \o <<"'",":"," ">> \o PyRepr(ms[i].v) \o ReprMembers(ms, i + 1)

\* key in container, for a string key: a key of a dict, an item of a list,
\* a substring of a str, TypeError for the other types
PyIn(key, container) ==
    CASE container.t = "dict" -> Ok(HasKey(container, key))
      [] container.t = "list" -> Ok(\E i \in 1..Len(container.v) : container.v[i] = JStr(key))
      [] container.t = "str" -> Ok(Contains(container.v, key))
      [] OTHER -> Raise

WhiteChars == {" ", NL, "\t"}

RECURSIVE StripChars(_, _)
\* s.strip(chars)
StripChars(s, chars) ==
    IF s # <<>> /\ s[1] \in chars THEN StripChars(Tail(s), chars)
    ELSE IF s # <<>> /\ s[Len(s)] \in chars THEN StripChars(SubSeq(s, 1, Len(s) - 1), chars)
    ELSE s

\* int(j): exc is "none", "ValueError" or "TypeError"
PyInt(j) ==
    CASE j.t = "int" -> [exc |-> "none", n |-> j.v]
      [] j.t = "bool" -> [exc |-> "none", n |-> IF j.v THEN 1 ELSE 0]
      [] j.t = "float" -> [exc |-> "none", n |-> IF j.v.neg THEN 0 - j.v.ip ELSE j.v.ip]
      [] j.t = "str" ->
           LET b == StripChars(j.v, WhiteChars)
               signed == b # <<>> /\ b[1] \in {"-", "+"}
               ds == IF signed THEN Tail(b) ELSE b
           IN  IF IsDigits(ds) THEN [exc |-> "none", n |-> IF signed /\ b[1] = "-" THEN 0 - NatOf(ds) ELSE NatOf(ds)]
               ELSE [exc |-> "ValueError", n |-> 0]
      [] OTHER -> [exc |-> "TypeError", n |-> 0]

LowerSeq == <<"a","b","c","d","e","f","g","h","i","j","k","l","m","n","o","p","q","r","s","t","u","v","w","x","y","z">>

UpperSeq == <<"A","B","C","D","E","F","G","H","I","J","K","L","M","N","O","P","Q","R","S","T","U","V","W","X","Y","Z">>

LetterIndex(c, letters) == CHOOSE i \in 1..Len(letters) : letters[i] = c

UpperChar(c) == IF c \in LowerChars THEN UpperSeq[LetterIndex(c, LowerSeq)] ELSE c

LowerChar(c) == IF c \in UpperChars THEN LowerSeq[LetterIndex(c, UpperSeq)] ELSE c

\* s.upper(), s.lower(), s.capitalize()
Upper(s) == [i \in 1..Len(s) |-> UpperChar(s[i])]

Lower(s) == [i \in 1..Len(s) |-> LowerChar(s[i])]

Capitalize(s) == [i \in 1..Len(s) |-> IF i = 1 THEN UpperChar(s[i]) ELSE LowerChar(s[i])]

RECURSIVE LStrip(_, _)
\* s.lstrip(chars), s.rstrip(chars)
LStrip(s, chars) == IF s # <<>> /\ s[1] \in chars THEN LStrip(Tail(s), chars) ELSE s

RECURSIVE RStrip(_, _)
RStrip(s, chars) == IF s # <<>> /\ s[Len(s)] \in chars THEN RStrip(SubSeq(s, 1, Len(s) - 1), chars) ELSE s

RECURSIVE Replace(_, _, _)
\* s.replace(old, new), old not empty
Replace(s, old, new) ==
    IF Len(s) < Len(old) THEN s
    ELSE IF StartsWith(s, old) THEN new \o Replace(SubSeq(s, Len(old) + 1, Len(s)), old, new)
    ELSE <<s[1]>> \o Replace(Tail(s), old, new)

RECURSIVE Split(_, _)
\* s.split(sep), sep one character
Split(s, sep) ==
    IF \A i \in 1..Len(s) : s[i] # sep THEN <<s>>
    ELSE LET i == CHOOSE x \in 1..Len(s) : s[x] = sep /\ \A y \in 1..(x - 1) : s[y] # sep
         IN  <<SubSeq(s, 1, i - 1)>> \o Split(SubSeq(s, i + 1, Len(s)), sep)

RECURSIVE FlattenRange(_, _, _)
\* the concatenation of the sequences lo..hi of a sequence
FlattenRange(ps, lo, hi) ==
    IF lo > hi THEN <<>>
    ELSE IF lo = hi THEN ps[lo]
    ELSE Bind((lo + hi) \div 2, LAMBDA mid : FlattenRange(ps, lo, mid) \o FlattenRange(ps, mid + 1, hi))

Flatten(ps) == Bind(ps, LAMBDA q : FlattenRange(q, 1, Len(q)))

\* sep.join(parts)
Join(parts, sep) ==
    Bind(parts, LAMBDA q : Flatten([i \in 1..(2 * Len(q) - 1) |-> IF i % 2 = 1 THEN q[(i + 1) \div 2] ELSE sep]))

(***************************************************************************)
(* validate_tokens.py                                                      *)
(***************************************************************************)
REQUIRED_SECTIONS == <<<<"m","e","t","a">>, <<"c","o","l","o","r">>, <<"t","y","p","o","g","r","a","p","h","y">>, <<"s","p","a","c","i","n","g">>, <<"b","o","r","d","e","r","R","a","d","i","u","s">>, <<"s","h","a","d","o","w">>>>

REQUIRED_META_FIELDS == <<<<"n","a","m","e">>, <<"s","o","u","r","c","e">>, <<"v","e","r","s","i","o","n">>, <<"g","e","n","e","r","a","t","e","d">>>>

HexChars == DigitChars \cup {"a", "b", "c", "d", "e", "f", "A", "B", "C", "D", "E", "F"}

HexDigits == 6

\* HEX_RE.match(value)
HEX_RE_match(value) == \E b \in DollarEnds(value) : Len(b) = HexDigits + 1 /\ b[1] = "#" /\ \A i \in 2..Len(b) : b[i] \in HexChars

RefChars == WordChars \cup {".", "-"}

\* the end of the match of the validator's TOKEN_REF_RE that starts at i, or 0
ValidatorRefEnd(v, i) ==
    IF v[i] # "{" THEN 0
    ELSE LET stops == {j \in (i + 1)..Len(v) : v[j] \notin RefChars}
         IN  IF stops = {} THEN 0
             ELSE LET j == CHOOSE x \in stops : \A y \in stops : x <= y
                  IN  IF j > i + 1 /\ v[j] = "}" THEN j ELSE 0

RECURSIVE FindRefs(_, _)
\* TOKEN_REF_RE.findall(v), from position i on
FindRefs(v, i) ==
    IF i > Len(v) THEN <<>>
    ELSE IF ValidatorRefEnd(v, i) = 0 THEN FindRefs(v, i + 1)
    ELSE <<SubSeq(v, i, ValidatorRefEnd(v, i))>> \o FindRefs(v, ValidatorRefEnd(v, i) + 1)

SkippedKeys == {<<"m","e","t","a">>, <<"c","o","m","p","o","n","e","n","t","s">>}

RECURSIVE CollectPaths(_, _)
CollectPaths(ms, prefix) ==
    UNION {IF ms[i].k \in SkippedKeys THEN {}
           ELSE LET current == IF prefix = <<>> THEN ms[i].k ELSE prefix \o <<".">> \o ms[i].k
                IN  IF ~IsDict(ms[i].v) THEN {}
                    ELSE IF HasKey(ms[i].v, <<"v","a","l","u","e">>) /\ HasKey(ms[i].v, <<"t","y","p","e">>) THEN {current}
                    ELSE CollectPaths(ms[i].v.v, current) : i \in 1..Len(ms)}

collect_token_paths(d, prefix) == CollectPaths(d.v, prefix)

RECURSIVE MissingErrors(_, _, _, _)
\* one error for each name of names, from the i-th on, that is not in keys
MissingErrors(names, i, d, what) ==
    IF i > Len(names) THEN <<>>
    ELSE (IF PyIn(names[i], d).val THEN <<>> ELSE <<what \o names[i] \o <<"'">>>>) \o MissingErrors(names, i + 1, d, what)

\* the errors of one color token
ColorTokenErrors(name, token) ==
    IF ~IsDict(token) THEN Ok(<<<<"c","o","l","o","r",".">> \o name \o <<":"," ","e","x","p","e","c","t","e","d"," ","o","b","j","e","c","t",","," ","g","o","t"," ">> \o TypeName(token)>>)
    ELSE LET tyErrs == IF ~HasKey(token, <<"t","y","p","e">>) THEN <<<<"c","o","l","o","r",".">> \o name \o <<":"," ","m","i","s","s","i","n","g"," ","'","t","y","p","e","'">>>>
                       ELSE IF GetKey(token, <<"t","y","p","e">>) # JStr(<<"c","o","l","o","r">>)
                            THEN <<<<"c","o","l","o","r",".">> \o name \o <<":"," ","t","y","p","e"," ","s","h","o","u","l","d"," ","b","e"," ","'","c","o","l","o","r","'",","," ","g","o","t"," ","'">> \o PyStr(GetKey(token, <<"t","y","p","e">>)) \o <<"'">>>>
                            ELSE <<>>
         IN  IF ~HasKey(token, <<"v","a","l","u","e">>) THEN Ok(<<<<"c","o","l","o","r",".">> \o name \o <<":"," ","m","i","s","s","i","n","g"," ","'","v","a","l","u","e","'">>>> \o tyErrs)
             ELSE IF ~IsStr(GetKey(token, <<"v","a","l","u","e">>)) THEN Raise
             ELSE IF ~HEX_RE_match(GetKey(token, <<"v","a","l","u","e">>).v)
                  THEN Ok(<<<<"c","o","l","o","r",".">> \o name \o <<":"," ","v","a","l","u","e"," ","'">> \o GetKey(token, <<"v","a","l","u","e">>).v \o <<"'"," ","i","s"," ","n","o","t"," ","a"," ","v","a","l","i","d"," ","6","-","d","i","g","i","t"," ","h","e","x">>>> \o tyErrs)
                  ELSE Ok(tyErrs)

\* the errors of one token whose value is to be in px
PxTokenErrors(path, token) ==
    IF ~(IsDict(token) /\ HasKey(token, <<"v","a","l","u","e">>)) THEN Ok(<<>>)
    ELSE IF ~IsStr(GetKey(token, <<"v","a","l","u","e">>)) THEN Raise
    ELSE IF ~PX_RE_match(GetKey(token, <<"v","a","l","u","e">>).v).ok
         THEN Ok(<<path \o <<":"," ","v","a","l","u","e"," ","'">> \o GetKey(token, <<"v","a","l","u","e">>).v \o <<"'"," ","s","h","o","u","l","d"," ","b","e"," ","i","n"," ","p","x">>>>)
         ELSE Ok(<<>>)

MinWeight == 100

MaxWeight == 900

WeightStep == 100

\* the errors of one font-weight token
WeightTokenErrors(path, token) ==
    IF ~(IsDict(token) /\ HasKey(token, <<"v","a","l","u","e">>)) THEN Ok(<<>>)
    ELSE Bind(PyInt(GetKey(token, <<"v","a","l","u","e">>)), LAMBDA w :
           IF w.exc = "TypeError" THEN Raise
           ELSE IF w.exc = "none" /\ ~(w.n < MinWeight \/ w.n > MaxWeight \/ w.n % WeightStep # 0) THEN Ok(<<>>)
           ELSE Ok(<<path \o <<":"," ","v","a","l","u","e"," ","'">> \o PyStr(GetKey(token, <<"v","a","l","u","e">>))
                     \o (IF w.exc = "ValueError" THEN <<"'"," ","s","h","o","u","l","d"," ","b","e"," ","n","u","m","e","r","i","c">> ELSE <<"'"," ","s","h","o","u","l","d"," ","b","e"," ","1","0","0","-","9","0","0"," ","i","n"," ","i","n","c","r","e","m","e","n","t","s"," ","o","f"," ","1","0","0">>)>>))

ShadowTokenErrors(path, token) ==
    IF IsDict(token) /\ HasKey(token, <<"t","y","p","e">>) /\ GetKey(token, <<"t","y","p","e">>) # JStr(<<"s","h","a","d","o","w">>)
    THEN Ok(<<path \o <<":"," ","t","y","p","e"," ","s","h","o","u","l","d"," ","b","e"," ","'","s","h","a","d","o","w","'",","," ","g","o","t"," ","'">> \o PyStr(GetKey(token, <<"t","y","p","e">>)) \o <<"'">>>>)
    ELSE Ok(<<>>)

\* the check of one token of a group: kind names the check
TokenErrors(kind, prefix, name, token) ==
    CASE kind = "color" -> ColorTokenErrors(name, token)
      [] kind = "px" -> PxTokenErrors(prefix \o name, token)
      [] kind = "weight" -> WeightTokenErrors(prefix \o name, token)
      [] OTHER -> ShadowTokenErrors(prefix \o name, token)

RECURSIVE GroupErrors(_, _, _, _, _)
\* for name, token in group.items(): the errors of the members from the i-th
\* on, appended to errs; the first raise ends the loop
GroupErrors(kind, prefix, ms, i, errs) ==
    IF i > Len(ms) THEN Ok(errs)
    ELSE Then(TokenErrors(kind, prefix, ms[i].k, ms[i].v), LAMBDA e : GroupErrors(kind, prefix, ms, i + 1, errs \o e))

\* a section's loop: data.get(section, {}).items()
SectionErrors(kind, d, section, errs) ==
    LET group == GetOr(d, section, JDict(<<>>))
    IN  IF ~IsDict(group) THEN Raise ELSE GroupErrors(kind, section \o <<".">>, group.v, 1, errs)

\* a typography group's loop: if key in typo: typo[key].items()
TypographyErrors(kind, d, key, errs) ==
    LET typo == GetOr(d, <<"t","y","p","o","g","r","a","p","h","y">>, JDict(<<>>))
        has == PyIn(key, typo)
    IN  IF has.raised THEN Raise
        ELSE IF ~has.val THEN Ok(errs)
        ELSE IF ~IsDict(typo) \/ ~IsDict(GetKey(typo, key)) THEN Raise
        ELSE GroupErrors(kind, <<"t","y","p","o","g","r","a","p","h","y",".">> \o key \o <<".">>, GetKey(typo, key).v, 1, errs)

RECURSIVE RefErrors(_, _, _, _)
\* the errors of the references of one property value
RefErrors(where, refs, i, all_tokens) ==
    IF i > Len(refs) THEN <<>>
    ELSE (IF StripChars(refs[i], {"{", "}"}) \notin all_tokens
          THEN <<where \o <<":"," ","r","e","f","e","r","e","n","c","e"," ","'">> \o refs[i] \o <<"'"," ","n","o","t"," ","f","o","u","n","d"," ","i","n"," ","t","o","k","e","n","s">>>> ELSE <<>>)
         \o RefErrors(where, refs, i + 1, all_tokens)

RECURSIVE PropErrors(_, _, _, _)
PropErrors(comp_name, props, i, all_tokens) ==
    IF i > Len(props) THEN <<>>
    ELSE (IF ~IsStr(props[i].v) THEN <<>>
          ELSE RefErrors(<<"c","o","m","p","o","n","e","n","t","s",".">> \o comp_name \o <<".">> \o props[i].k, FindRefs(props[i].v.v, 1), 1, all_tokens))
         \o PropErrors(comp_name, props, i + 1, all_tokens)

RECURSIVE ComponentErrors(_, _, _)
ComponentErrors(comps, i, all_tokens) ==
    IF i > Len(comps) THEN <<>>
    ELSE (IF ~IsDict(comps[i].v) THEN <<>> ELSE PropErrors(comps[i].k, comps[i].v.v, 1, all_tokens))
         \o ComponentErrors(comps, i + 1, all_tokens)

\* the sections and the meta fields that are missing
RequiredErrors(d) ==
    LET meta == GetOr(d, <<"m","e","t","a">>, JDict(<<>>))
    IN  IF PyIn(<<"n","a","m","e">>, meta).raised THEN Raise
        ELSE Ok(MissingErrors(REQUIRED_SECTIONS, 1, d, <<"M","i","s","s","i","n","g"," ","r","e","q","u","i","r","e","d"," ","s","e","c","t","i","o","n",":"," ","'">>)
                \o MissingErrors(REQUIRED_META_FIELDS, 1, meta, <<"M","i","s","s","i","n","g"," ","r","e","q","u","i","r","e","d"," ","m","e","t","a"," ","f","i","e","l","d",":"," ","'">>))

\* the errors of the components, appended to errs
ComponentsErrors(d, errs) ==
    LET components == GetOr(d, <<"c","o","m","p","o","n","e","n","t","s">>, JDict(<<>>))
    IN  IF ~IsDict(components) THEN Raise
        ELSE Ok(errs \o ComponentErrors(components.v, 1, collect_token_paths(d, <<>>)))

\* validate(data): the list of errors, or raised
validate(d) ==
    IF ~IsDict(d) THEN Raise
    ELSE Then(Then(Then(Then(Then(Then(Then(RequiredErrors(d),
              LAMBDA e : SectionErrors("color", d, <<"c","o","l","o","r">>, e)),
              LAMBDA e : TypographyErrors("px", d, <<"f","o","n","t","-","s","i","z","e">>, e)),
              LAMBDA e : TypographyErrors("weight", d, <<"f","o","n","t","-","w","e","i","g","h","t">>, e)),
              LAMBDA e : SectionErrors("px", d, <<"s","p","a","c","i","n","g">>, e)),
              LAMBDA e : SectionErrors("px", d, <<"b","o","r","d","e","r","R","a","d","i","u","s">>, e)),
              LAMBDA e : SectionErrors("shadow", d, <<"s","h","a","d","o","w">>, e)),
              LAMBDA e : ComponentsErrors(d, e))

(***************************************************************************)
(* generate_css.py: the stylesheet                                         *)
(***************************************************************************)
\* validate_required_sections(data) of the three generators, data a dict
validate_required_sections(d) ==
    LET meta == GetOr(d, <<"m","e","t","a">>, JDict(<<>>))
    IN  IF PyIn(<<"n","a","m","e">>, meta).raised THEN Raise
        ELSE Ok(MissingErrors(REQUIRED_SECTIONS, 1, d, <<"M","i","s","s","i","n","g"," ","r","e","q","u","i","r","e","d"," ","s","e","c","t","i","o","n",":"," ","'">>)
                \o MissingErrors(<<<<"n","a","m","e">>, <<"s","o","u","r","c","e">>, <<"v","e","r","s","i","o","n">>, <<"g","e","n","e","r","a","t","e","d">>>>, 1, meta, <<"M","i","s","s","i","n","g"," ","r","e","q","u","i","r","e","d"," ","m","e","t","a"," ","f","i","e","l","d",":"," ","'">>))

\* the three values every header shows; meta.get raises unless meta is a dict
HeaderFields(meta) ==
    [name |-> PyStr(GetOr(meta, <<"n","a","m","e">>, JStr(<<"D","e","s","i","g","n"," ","S","y","s","t","e","m">>))),
     source |-> PyStr(GetOr(meta, <<"s","o","u","r","c","e">>, JStr(<<"U","n","k","n","o","w","n">>))),
     version |-> PyStr(GetOr(meta, <<"v","e","r","s","i","o","n">>, JStr(<<"1",".","0",".","0">>)))]

generate_header(meta, fmt, today) ==
    IF ~IsDict(meta) THEN Raise
    ELSE Bind(HeaderFields(meta), LAMBDA h :
             Ok(Join(<<<<"/","*"," ">> \o h.name, <<" ","*"," ","S","o","u","r","c","e",":"," ">> \o h.source, <<" ","*"," ","V","e","r","s","i","o","n",":"," ">> \o h.version,
                       <<" ","*"," ","G","e","n","e","r","a","t","e","d",":"," ">> \o today,
                       <<" ","*"," ","F","o","r","m","a","t",":"," ">> \o (IF fmt = "scss" THEN <<"S","C","S","S">> ELSE <<"C","S","S"," ","C","u","s","t","o","m"," ","P","r","o","p","e","r","t","i","e","s">>),
                       <<" ","*","/">>>>, <<"\n">>)))

\* a == b of Python for two JSON values: numbers and booleans by magnitude
PyEq(a, b) ==
    LET num(j) == j.t \in {"int", "bool", "float"}
        mag(j) == CASE j.t = "int" -> [neg |-> j.v < 0, ip |-> Abs(j.v), fr |-> <<>>]
                    [] j.t = "bool" -> [neg |-> FALSE, ip |-> IF j.v THEN 1 ELSE 0, fr |-> <<>>]
                    [] OTHER -> [neg |-> j.v.neg /\ ~FloatIsZero(j.v), ip |-> j.v.ip, fr |-> StripZeros(PadStr(j.v.fs, j.v.dn))]
    IN  IF num(a) /\ num(b) THEN mag(a) = mag(b) ELSE a = b

RECURSIVE FontSourceUrls(_, _, _)
\* the loop of collect_font_sources over the members of font-source
FontSourceUrls(ms, i, urls) ==
    IF i > Len(ms) THEN Ok(urls)
    ELSE LET token == ms[i].v
         IN  IF ~(IsDict(token) /\ HasKey(token, <<"v","a","l","u","e">>)) \/ GetKey(token, <<"v","a","l","u","e">>) = JStr(<<"s","y","s","t","e","m">>)
             THEN FontSourceUrls(ms, i + 1, urls)
             ELSE IF ~Hashable(GetKey(token, <<"v","a","l","u","e">>)) THEN Raise
             ELSE IF \E h \in 1..Len(urls) : PyEq(urls[h], GetKey(token, <<"v","a","l","u","e">>)) THEN FontSourceUrls(ms, i + 1, urls)
             ELSE FontSourceUrls(ms, i + 1, Append(urls, GetKey(token, <<"v","a","l","u","e">>)))

\* the group data.get("typography", {}).get(key, {}), raising unless
\* typography is a dict
TypographyGroup(d, key) ==
    LET typo == GetOr(d, <<"t","y","p","o","g","r","a","p","h","y">>, JDict(<<>>))
    IN  IF ~IsDict(typo) THEN Raise ELSE Ok(GetOr(typo, key, JDict(<<>>)))

collect_font_sources(d) ==
    LET g == TypographyGroup(d, <<"f","o","n","t","-","s","o","u","r","c","e">>)
    IN  IF g.raised \/ ~IsDict(g.val) THEN Raise ELSE FontSourceUrls(g.val.v, 1, <<>>)

generate_font_imports(d) ==
    Then(collect_font_sources(d), LAMBDA urls :
        Ok(Join([i \in 1..Len(urls) |-> <<"@","i","m","p","o","r","t"," ","u","r","l","(","'">> \o PyStr(urls[i]) \o <<"'",")",";">>], <<"\n">>)))

IsToken(j) == IsDict(j) /\ HasKey(j, <<"v","a","l","u","e">>) /\ HasKey(j, <<"t","y","p","e">>)

\* convert_value(val["value"], val["type"]) as the stylesheet shows it
ConvertToken(val) ==
    LET x == GetKey(val, <<"v","a","l","u","e">>)
        ty == GetKey(val, <<"t","y","p","e">>)
    IN  IF ~Hashable(ty) THEN Raise
        ELSE IF IsStr(ty) /\ IsStr(x) THEN Ok(convert_value(x.v, ty.v))
        ELSE IF ty = JStr(<<"d","i","m","e","n","s","i","o","n">>) THEN Raise
        ELSE Ok(PyStr(x))

build_scss_variable_name(section, key, subkey) == <<"$">> \o LStrip(build_css_variable_name(section, key, subkey), {"-"})

\* the tuple collect_tokens appends for a token
TokenTuple(section, key, subkey, val) ==
    Then(ConvertToken(val), LAMBDA c :
        Ok(<<[css_name |-> build_css_variable_name(section, key, subkey),
              scss_name |-> build_scss_variable_name(section, key, subkey),
              value |-> c, section |-> section]>>))

RECURSIVE GroupTokens(_, _, _, _, _)
\* the loop over the members of a section (key empty) or of a typography
\* group (key the group's)
GroupTokens(section, key, ms, i, tokens) ==
    IF i > Len(ms) THEN Ok(tokens)
    ELSE Then(IF key = <<>> /\ section = <<"t","y","p","o","g","r","a","p","h","y">> /\ ms[i].k = <<"f","o","n","t","-","s","o","u","r","c","e">> THEN Ok(<<>>)
              ELSE IF IsToken(ms[i].v)
                   THEN TokenTuple(section, IF key = <<>> THEN ms[i].k ELSE key, IF key = <<>> THEN <<>> ELSE ms[i].k, ms[i].v)
              ELSE IF key = <<>> /\ section = <<"t","y","p","o","g","r","a","p","h","y">> /\ IsDict(ms[i].v) THEN GroupTokens(section, ms[i].k, ms[i].v.v, 1, <<>>)
              ELSE Ok(<<>>),
              LAMBDA found : GroupTokens(section, key, ms, i + 1, tokens \o found))

SectionOrder == <<<<"c","o","l","o","r">>, <<"t","y","p","o","g","r","a","p","h","y">>, <<"s","p","a","c","i","n","g">>, <<"b","o","r","d","e","r","R","a","d","i","u","s">>, <<"s","h","a","d","o","w">>>>

RECURSIVE SectionTokens(_, _, _)
SectionTokens(d, i, tokens) ==
    IF i > Len(SectionOrder) THEN Ok(tokens)
    ELSE IF ~HasKey(d, SectionOrder[i]) THEN SectionTokens(d, i + 1, tokens)
    ELSE IF ~IsDict(GetKey(d, SectionOrder[i])) THEN Raise
    ELSE Then(GroupTokens(SectionOrder[i], <<>>, GetKey(d, SectionOrder[i]).v, 1, tokens),
              LAMBDA found : SectionTokens(d, i + 1, found))

collect_tokens(d) == SectionTokens(d, 1, <<>>)

SECTION_LABELS ==
    (<<"c","o","l","o","r">> :> <<"C","o","l","o","r","s">>) @@ (<<"t","y","p","o","g","r","a","p","h","y">> :> <<"T","y","p","o","g","r","a","p","h","y">>) @@ (<<"s","p","a","c","i","n","g">> :> <<"S","p","a","c","i","n","g">>)
    @@ (<<"b","o","r","d","e","r","R","a","d","i","u","s">> :> <<"B","o","r","d","e","r"," ","R","a","d","i","u","s">>) @@ (<<"s","h","a","d","o","w">> :> <<"S","h","a","d","o","w","s">>)

\* the lines of the tokens with the label of its section before every token
TokenLines_labelling_each(tokens, label, indent, scss) ==
    LET line(i) == (IF i > 1 THEN <<<<>>>> ELSE <<>>)
                   \o <<indent \o label[1] \o MapGet(SECTION_LABELS, tokens[i].section, tokens[i].section) \o label[2]>>
                   \o <<indent \o (IF scss THEN tokens[i].scss_name ELSE tokens[i].css_name) \o <<":"," ">> \o tokens[i].value \o <<";">>>>
    IN  Flatten([i \in 1..Len(tokens) |-> line(i)])

\* the lines of the tokens: a label where the section changes, a blank line
\* before every label but the first
TokenLines(tokens, label, indent, scss) ==
    LET opens(i) == i = 1 \/ tokens[i].section # tokens[i - 1].section
        line(i) == (IF i > 1 /\ opens(i) THEN <<<<>>>> ELSE <<>>)
                   \o (IF opens(i) THEN <<indent \o label[1] \o MapGet(SECTION_LABELS, tokens[i].section, tokens[i].section) \o label[2]>> ELSE <<>>)
                   \o <<indent \o (IF scss THEN tokens[i].scss_name ELSE tokens[i].css_name) \o <<":"," ">> \o tokens[i].value \o <<";">>>>
    IN  Flatten([i \in 1..Len(tokens) |-> line(i)])

\* header, blank, the imports if any, then the body
Preamble(header, font_imports) == <<header, <<>>>> \o (IF font_imports # <<>> THEN <<font_imports, <<>>>> ELSE <<>>)

generate_css(d, today) ==
    Then(collect_tokens(d), LAMBDA tokens :
    Then(generate_header(GetOr(d, <<"m","e","t","a">>, JDict(<<>>)), "css", today), LAMBDA header :
    Then(generate_font_imports(d), LAMBDA font_imports :
        Ok(Join(Preamble(header, font_imports) \o <<<<":","r","o","o","t"," ","{">>>>
                \o TokenLines(tokens, <<<<"/","*"," ">>, <<" ","*","/">>>>, <<" "," ">>, FALSE) \o <<<<"}">>, <<>>>>, <<"\n">>)))))

MapNames ==
    (<<"c","o","l","o","r">> :> <<"$","c","o","l","o","r","s">>) @@ (<<"t","y","p","o","g","r","a","p","h","y">> :> <<"$","t","y","p","o","g","r","a","p","h","y">>) @@ (<<"s","p","a","c","i","n","g">> :> <<"$","s","p","a","c","i","n","g">>)
    @@ (<<"b","o","r","d","e","r","R","a","d","i","u","s">> :> <<"$","r","a","d","i","i">>) @@ (<<"s","h","a","d","o","w">> :> <<"$","s","h","a","d","o","w","s">>)

\* the map of a section: nothing if the section has no token
ScssMap(tokens, section) ==
    LET own == SelectSeq(tokens, LAMBDA tk : tk.section = section)
    IN  IF own = <<>> THEN <<>>
        ELSE <<MapNames[section] \o <<":"," ","(">>>>
             \o [i \in 1..Len(own) |-> <<" "," ">> \o <<"\"">> \o LStrip(own[i].scss_name, {"$"}) \o <<"\"">> \o <<":"," ">> \o own[i].value \o <<",">>]
             \o <<<<")",";">>>>

generate_scss(d, today) ==
    Then(collect_tokens(d), LAMBDA tokens :
    Then(generate_header(GetOr(d, <<"m","e","t","a">>, JDict(<<>>)), "scss", today), LAMBDA header :
    Then(generate_font_imports(d), LAMBDA font_imports :
        Ok(Join(Preamble(header, font_imports)
                \o TokenLines(tokens, <<<<"/","/"," ">>, <<>>>>, <<>>, TRUE)
                \o <<<<>>, <<"/","/"," ","M","a","p","s">>>>
                \o Flatten([i \in 1..Len(SectionOrder) |-> ScssMap(tokens, SectionOrder[i])])
                \o <<<<>>>>, <<"\n">>)))))

(***************************************************************************)
(* generate_css.py: the component classes                                  *)
(***************************************************************************)
COMPONENT_STATE_PROPS ==
    (<<"h","o","v","e","r","-","b","a","c","k","g","r","o","u","n","d">> :> <<<<"&",":","h","o","v","e","r">>, <<"b","a","c","k","g","r","o","u","n","d">>>>) @@ (<<"h","o","v","e","r","-","c","o","l","o","r">> :> <<<<"&",":","h","o","v","e","r">>, <<"c","o","l","o","r">>>>)
    @@ (<<"f","o","c","u","s","-","b","o","r","d","e","r">> :> <<<<"&",":","f","o","c","u","s">>, <<"b","o","r","d","e","r","-","c","o","l","o","r">>>>)
    @@ (<<"a","c","t","i","v","e","-","c","o","l","o","r">> :> <<<<"&",".","a","c","t","i","v","e",","," ","&","[","a","r","i","a","-","c","u","r","r","e","n","t","]">>, <<"c","o","l","o","r">>>>)
    @@ (<<"a","c","t","i","v","e","-","b","a","c","k","g","r","o","u","n","d">> :> <<<<"&",".","a","c","t","i","v","e",","," ","&","[","a","r","i","a","-","c","u","r","r","e","n","t","]">>, <<"b","a","c","k","g","r","o","u","n","d">>>>)
    @@ (<<"p","l","a","c","e","h","o","l","d","e","r","-","c","o","l","o","r">> :> <<<<"&",":",":","p","l","a","c","e","h","o","l","d","e","r">>, <<"c","o","l","o","r">>>>)

\* d[key] = val of a dict kept as the sequence of its items: the value of an
\* old key is replaced where the key stands, a new key is added at the end
SetItem(items, key, val) ==
    IF \E i \in 1..Len(items) : items[i].k = key
    THEN [i \in 1..Len(items) |-> IF items[i].k = key THEN Mem(key, val) ELSE items[i]]
    ELSE Append(items, Mem(key, val))

\* d.setdefault(key, []).append(val)
AppendItem(items, key, val) ==
    IF \E i \in 1..Len(items) : items[i].k = key
    THEN [i \in 1..Len(items) |-> IF items[i].k = key THEN Mem(key, Append(items[i].v, val)) ELSE items[i]]
    ELSE Append(items, Mem(key, <<val>>))

RECURSIVE SortProps(_, _, _, _, _)
\* the loop over the properties of a component: the regular and the state
\* properties, references resolved; a value that is no string raises
SortProps(props, i, token_map, regular, state) ==
    IF i > Len(props) THEN Ok([regular |-> regular, state |-> state])
    ELSE IF ~IsStr(props[i].v) THEN Raise
    ELSE LET prop == props[i].k
             value == resolve_token_ref(props[i].v.v, token_map)
         IN  IF prop \in DOMAIN COMPONENT_STATE_PROPS
             THEN SortProps(props, i + 1, token_map, regular,
                            AppendItem(state, COMPONENT_STATE_PROPS[prop][1], Mem(COMPONENT_STATE_PROPS[prop][2], value)))
             ELSE SortProps(props, i + 1, token_map,
                            SetItem(regular, IF prop = <<"s","h","a","d","o","w">> THEN <<"b","o","x","-","s","h","a","d","o","w">> ELSE prop, value), state)

Decls(items, indent) == [i \in 1..Len(items) |-> indent \o items[i].k \o <<":"," ">> \o items[i].v \o <<";">>]

\* the lines of one component
ComponentLines(comp_name, sorted, fmt) ==
    IF fmt = "scss"
    THEN <<<<"@","m","i","x","i","n"," ">> \o comp_name \o <<" ","{">>>> \o Decls(sorted.regular, <<" "," ">>)
         \o Flatten([i \in 1..Len(sorted.state) |->
                       <<<<" "," ">> \o sorted.state[i].k \o <<" ","{">>>> \o Decls(sorted.state[i].v, <<" "," "," "," ">>) \o <<<<" "," ","}">>>>])
         \o <<<<"}">>, <<>>>>
    ELSE <<<<".">> \o comp_name \o <<" ","{">>>> \o Decls(sorted.regular, <<" "," ">>)
         \o Flatten([i \in 1..Len(sorted.state) |->
                       <<<<"}">>, <<>>, Replace(sorted.state[i].k, <<"&">>, <<".">> \o comp_name) \o <<" ","{">>>> \o Decls(sorted.state[i].v, <<" "," ">>)])
         \o <<<<"}">>, <<>>>>

RECURSIVE ComponentsLines(_, _, _, _, _)
ComponentsLines(comps, i, token_map, fmt, lines) ==
    IF i > Len(comps) THEN Ok(lines)
    ELSE IF ~IsDict(comps[i].v) THEN Raise
    ELSE Then(SortProps(comps[i].v.v, 1, token_map, <<>>, <<>>), LAMBDA sorted :
              ComponentsLines(comps, i + 1, token_map, fmt, lines \o ComponentLines(comps[i].k, sorted, fmt)))

generate_component_classes(d, token_map, fmt) ==
    LET components == GetOr(d, <<"c","o","m","p","o","n","e","n","t","s">>, JNull)
    IN  IF ~Truthy(components) THEN Ok(<<>>)
        ELSE IF ~IsDict(components) THEN Raise
        ELSE Then(ComponentsLines(components.v, 1, token_map, fmt,
                                  <<IF fmt = "scss" THEN <<"/","/"," ","C","o","m","p","o","n","e","n","t"," ","M","i","x","i","n","s">> ELSE <<"/","*"," ","C","o","m","p","o","n","e","n","t"," ","U","t","i","l","i","t","y"," ","C","l","a","s","s","e","s"," ","*","/">>, <<>>>>),
                  LAMBDA lines : Ok(Join(lines, <<"\n">>)))

(***************************************************************************)
(* generate_kotlin.py and generate_swift.py: what they collect             *)
(***************************************************************************)
\* stands for the dash U+2014 of three comments
EmDash == "~"

\* the (key, value) pairs of the members of a group that are objects with
\* a 'value'
TokenValues(group) ==
    LET sel == SelectSeq(group.v, LAMBDA m : IsDict(m.v) /\ HasKey(m.v, <<"v","a","l","u","e">>))
    IN  [i \in 1..Len(sel) |-> Mem(sel[i].k, GetKey(sel[i].v, <<"v","a","l","u","e">>))]

\* the pairs with the value a number of dp or points; a value that is no
\* string raises
ConvertedValues(pairs, Conv(_)) ==
    IF \E i \in 1..Len(pairs) : ~IsStr(pairs[i].v) THEN Raise
    ELSE Ok([i \in 1..Len(pairs) |-> Mem(pairs[i].k, Conv(pairs[i].v.v))])

\* data.get(section, {}).items() of collect_colors, collect_spacing and
\* collect_radii
SectionValues(d, section) ==
    LET group == GetOr(d, section, JDict(<<>>))
    IN  IF ~IsDict(group) THEN Raise ELSE Ok(TokenValues(group))

\* data.get("typography", {}).get(key, {}).items() of collect_font_sizes,
\* collect_font_weights and collect_line_heights
GroupValues(d, key) ==
    LET g == TypographyGroup(d, key)
    IN  IF g.raised \/ ~IsDict(g.val) THEN Raise ELSE Ok(TokenValues(g.val))

FamilyKeys == <<<<"f","o","n","t","-","f","a","m","i","l","y","-","h","e","a","d","i","n","g">>, <<"f","o","n","t","-","f","a","m","i","l","y","-","b","o","d","y">>, <<"f","o","n","t","-","f","a","m","i","l","y","-","m","o","n","o">>>>

SourceKeys == <<<<"h","e","a","d","i","n","g">>, <<"b","o","d","y">>, <<"m","o","n","o">>>>

\* the members of keys that a dict holds as a non-empty object with a 'value'
KeyedValues(group, keys) ==
    LET sel == SelectSeq(keys, LAMBDA key : HasKey(group, key) /\ IsDict(GetKey(group, key)) /\ HasKey(GetKey(group, key), <<"v","a","l","u","e">>))
    IN  [i \in 1..Len(sel) |-> Mem(sel[i], GetKey(GetKey(group, sel[i]), <<"v","a","l","u","e">>))]

collect_font_families(d) ==
    LET typo == GetOr(d, <<"t","y","p","o","g","r","a","p","h","y">>, JDict(<<>>))
    IN  IF ~IsDict(typo) THEN Raise
        ELSE LET raw == KeyedValues(typo, FamilyKeys)
             IN  IF \E i \in 1..Len(raw) : ~IsStr(raw[i].v) THEN Raise
                 ELSE Ok([i \in 1..Len(raw) |->
                            Mem(Replace(raw[i].k, <<"f","o","n","t","-","f","a","m","i","l","y","-">>, <<>>),
                                StripChars(StripChars(Split(raw[i].v.v, ",")[1], WhiteChars), {"'", "\""}))])

\* collect_font_sources of the two mobile generators
mobile_font_sources(d) ==
    LET g == TypographyGroup(d, <<"f","o","n","t","-","s","o","u","r","c","e">>)
    IN  IF g.raised \/ ~IsDict(g.val) THEN Raise ELSE Ok(KeyedValues(g.val, SourceKeys))

\* pairs.get(key, default) of a lookup made of the pairs
Lookup(pairs, key, default) ==
    IF \E i \in 1..Len(pairs) : pairs[i].k = key
    THEN pairs[CHOOSE i \in 1..Len(pairs) : pairs[i].k = key /\ \A h \in (i + 1)..Len(pairs) : pairs[h].k # key].v
    ELSE default

(***************************************************************************)
(* generate_kotlin.py                                                      *)
(***************************************************************************)
\* hex_to_argb without the upper case
hex_to_argb_keeping_case(hex_str) == <<"0","x","F","F">> \o LStrip(hex_str, {"#"})

hex_to_argb(hex_str) == <<"0","x","F","F">> \o Upper(LStrip(hex_str, {"#"}))

generate_header_comment(meta, target, today) ==
    IF ~IsDict(meta) THEN Raise
    ELSE LET h == HeaderFields(meta)
         IN  Ok(<<"/","*","*","\n"," ","*"," ">> \o h.name \o <<"\n"," ","*"," ","S","o","u","r","c","e",":"," ">> \o h.source \o <<"\n"," ","*"," ","V","e","r","s","i","o","n",":"," ">> \o h.version
                \o <<"\n"," ","*"," ","G","e","n","e","r","a","t","e","d",":"," ">> \o today \o <<"\n"," ","*"," ","F","o","r","m","a","t",":"," ">> \o target \o <<"\n"," ","*","/","\n">>)

generate_xml_header(meta, target, today) ==
    IF ~IsDict(meta) THEN Raise
    ELSE LET h == HeaderFields(meta)
         IN  Ok(<<"<","?","x","m","l"," ","v","e","r","s","i","o","n","=","\"","1",".","0","\""," ","e","n","c","o","d","i","n","g","=","\"","u","t","f","-","8","\"","?",">","\n","<","!","-","-","\n"," "," ">> \o h.name \o <<"\n"," "," ","S","o","u","r","c","e",":"," ">> \o h.source
                \o <<"\n"," "," ","V","e","r","s","i","o","n",":"," ">> \o h.version \o <<"\n"," "," ","G","e","n","e","r","a","t","e","d",":"," ">> \o today \o <<"\n"," "," ","F","o","r","m","a","t",":"," ">> \o target \o <<"\n","-","-",">","\n">>)

token_name_to_kotlin(name) == Flatten([i \in 1..Len(Split(name, "-")) |-> Capitalize(Split(name, "-")[i])])

token_name_to_xml(name) == Replace(name, <<"-">>, <<"_">>)

Meta(d) == GetOr(d, <<"m","e","t","a">>, JDict(<<>>))

generate_compose_color(d, today) ==
    LET header == generate_header_comment(Meta(d), <<"J","e","t","p","a","c","k"," ","C","o","m","p","o","s","e"," ","-"," ","C","o","l","o","r","s">>, today)
        colors == SectionValues(d, <<"c","o","l","o","r">>)
    IN  IF header.raised \/ colors.raised THEN Raise
        ELSE IF \E i \in 1..Len(colors.val) : ~IsStr(colors.val[i].v) THEN Raise
        ELSE Ok(Join(<<header.val, <<"p","a","c","k","a","g","e"," ","c","o","m",".","e","x","a","m","p","l","e",".","t","h","e","m","e","\n">>, <<"i","m","p","o","r","t"," ","a","n","d","r","o","i","d","x",".","c","o","m","p","o","s","e",".","u","i",".","g","r","a","p","h","i","c","s",".","C","o","l","o","r","\n">>>>
                     \o [i \in 1..Len(colors.val) |->
                           <<"v","a","l"," ">> \o token_name_to_kotlin(colors.val[i].k) \o <<" ","="," ","C","o","l","o","r","(">> \o hex_to_argb(colors.val[i].v.v) \o <<")">>]
                     \o <<<<>>>>, <<"\n">>))

\* the lines of a font family of Type.kt
FamilyLines(short, font_name, sources) ==
    LET pascal == Capitalize(short)
        known == \E i \in 1..Len(sources) : sources[i].k = short
        source_url == Lookup(sources, short, JNull)
        font_res == Replace(Lower(font_name), <<" ">>, <<"_">>)
    IN  IF known /\ Truthy(source_url) /\ source_url # JStr(<<"s","y","s","t","e","m">>)
        THEN <<<<"/","/"," ","S","o","u","r","c","e",":"," ">> \o PyStr(source_url),
               <<"/","/"," ","D","o","w","n","l","o","a","d"," ","f","o","n","t"," ","f","i","l","e","s"," ","a","n","d"," ","p","l","a","c","e"," ","i","n"," ","r","e","s","/","f","o","n","t","/"," ","(","e",".","g",".",","," ">> \o font_res \o <<"_","r","e","g","u","l","a","r",".","t","t","f",")">>,
               <<"/","/"," ","T","h","e","n"," ","r","e","p","l","a","c","e"," ","F","o","n","t","F","a","m","i","l","y",".","D","e","f","a","u","l","t"," ","w","i","t","h",":">>,
               <<"/","/"," "," "," ","F","o","n","t","F","a","m","i","l","y","(","F","o","n","t","(","R",".","f","o","n","t",".">> \o font_res \o <<"_","r","e","g","u","l","a","r",","," ","F","o","n","t","W","e","i","g","h","t",".","N","o","r","m","a","l",")",","," ",".",".",".",")">>,
               <<"v","a","l"," ">> \o pascal \o <<"F","o","n","t","F","a","m","i","l","y"," ","="," ","F","o","n","t","F","a","m","i","l","y",".","D","e","f","a","u","l","t">>>>
        ELSE IF known /\ source_url = JStr(<<"s","y","s","t","e","m">>)
        THEN <<<<"v","a","l"," ">> \o pascal \o <<"F","o","n","t","F","a","m","i","l","y"," ","="," ","F","o","n","t","F","a","m","i","l","y",".","D","e","f","a","u","l","t"," ","/","/"," ","S","y","s","t","e","m"," ","f","o","n","t"," ">> \o <<EmDash>> \o <<" ","n","o"," ","s","e","t","u","p"," ","n","e","e","d","e","d">>>>
        ELSE <<<<"v","a","l"," ">> \o pascal \o <<"F","o","n","t","F","a","m","i","l","y"," ","="," ","F","o","n","t","F","a","m","i","l","y",".","D","e","f","a","u","l","t"," ","/","/"," ","R","e","p","l","a","c","e"," ","w","i","t","h"," ","a","c","t","u","a","l"," ","f","o","n","t"," ","r","e","s","o","u","r","c","e">>>>

\* the styles of Type.kt: name, whether of the heading family, the size
\* token and the size without it, the weight
TypeStyles ==
    << <<<<"d","i","s","p","l","a","y","L","a","r","g","e">>, TRUE, <<"4","x","l">>, <<"3","6">>, <<"F","o","n","t","W","e","i","g","h","t",".","B","o","l","d">>>>,
       <<<<"d","i","s","p","l","a","y","M","e","d","i","u","m">>, TRUE, <<"3","x","l">>, <<"3","0">>, <<"F","o","n","t","W","e","i","g","h","t",".","B","o","l","d">>>>,
       <<<<"d","i","s","p","l","a","y","S","m","a","l","l">>, TRUE, <<"2","x","l">>, <<"2","4">>, <<"F","o","n","t","W","e","i","g","h","t",".","B","o","l","d">>>>,
       <<<<"h","e","a","d","l","i","n","e","L","a","r","g","e">>, TRUE, <<"2","x","l">>, <<"2","4">>, <<"F","o","n","t","W","e","i","g","h","t",".","S","e","m","i","B","o","l","d">>>>,
       <<<<"h","e","a","d","l","i","n","e","M","e","d","i","u","m">>, TRUE, <<"x","l">>, <<"2","0">>, <<"F","o","n","t","W","e","i","g","h","t",".","S","e","m","i","B","o","l","d">>>>,
       <<<<"h","e","a","d","l","i","n","e","S","m","a","l","l">>, TRUE, <<"l","g">>, <<"1","8">>, <<"F","o","n","t","W","e","i","g","h","t",".","S","e","m","i","B","o","l","d">>>>,
       <<<<"t","i","t","l","e","L","a","r","g","e">>, TRUE, <<"l","g">>, <<"1","8">>, <<"F","o","n","t","W","e","i","g","h","t",".","M","e","d","i","u","m">>>>,
       <<<<"t","i","t","l","e","M","e","d","i","u","m">>, FALSE, <<"b","a","s","e">>, <<"1","6">>, <<"F","o","n","t","W","e","i","g","h","t",".","M","e","d","i","u","m">>>>,
       <<<<"t","i","t","l","e","S","m","a","l","l">>, FALSE, <<"s","m">>, <<"1","4">>, <<"F","o","n","t","W","e","i","g","h","t",".","M","e","d","i","u","m">>>>,
       <<<<"b","o","d","y","L","a","r","g","e">>, FALSE, <<"b","a","s","e">>, <<"1","6">>, <<"F","o","n","t","W","e","i","g","h","t",".","N","o","r","m","a","l">>>>,
       <<<<"b","o","d","y","M","e","d","i","u","m">>, FALSE, <<"s","m">>, <<"1","4">>, <<"F","o","n","t","W","e","i","g","h","t",".","N","o","r","m","a","l">>>>,
       <<<<"b","o","d","y","S","m","a","l","l">>, FALSE, <<"x","s">>, <<"1","2">>, <<"F","o","n","t","W","e","i","g","h","t",".","N","o","r","m","a","l">>>>,
       <<<<"l","a","b","e","l","L","a","r","g","e">>, FALSE, <<"s","m">>, <<"1","4">>, <<"F","o","n","t","W","e","i","g","h","t",".","M","e","d","i","u","m">>>>,
       <<<<"l","a","b","e","l","M","e","d","i","u","m">>, FALSE, <<"x","s">>, <<"1","2">>, <<"F","o","n","t","W","e","i","g","h","t",".","M","e","d","i","u","m">>>>,
       <<<<"l","a","b","e","l","S","m","a","l","l">>, FALSE, <<>>, <<"1","1">>, <<"F","o","n","t","W","e","i","g","h","t",".","M","e","d","i","u","m">>>> >>

generate_compose_type(d, today) ==
    LET header == generate_header_comment(Meta(d), <<"J","e","t","p","a","c","k"," ","C","o","m","p","o","s","e"," ","-"," ","T","y","p","o","g","r","a","p","h","y">>, today)
        families == collect_font_families(d)
        sizesRaw == GroupValues(d, <<"f","o","n","t","-","s","i","z","e">>)
        sizes == IF sizesRaw.raised THEN Raise ELSE ConvertedValues(sizesRaw.val, px_to_dp)
        weights == GroupValues(d, <<"f","o","n","t","-","w","e","i","g","h","t">>)
        line_heights == GroupValues(d, <<"l","i","n","e","-","h","e","i","g","h","t">>)
        font_sources == mobile_font_sources(d)
    IN  IF header.raised \/ families.raised \/ sizes.raised \/ weights.raised \/ line_heights.raised \/ font_sources.raised
        THEN Raise
        ELSE LET has(short) == \E i \in 1..Len(families.val) : families.val[i].k = short
                 body_family == IF has(<<"b","o","d","y">>) THEN <<"B","o","d","y","F","o","n","t","F","a","m","i","l","y">> ELSE <<"F","o","n","t","F","a","m","i","l","y",".","D","e","f","a","u","l","t">>
                 heading_family == IF has(<<"h","e","a","d","i","n","g">>) THEN <<"H","e","a","d","i","n","g","F","o","n","t","F","a","m","i","l","y">> ELSE <<"F","o","n","t","F","a","m","i","l","y",".","D","e","f","a","u","l","t">>
                 style(i) == <<<<" "," "," "," ">> \o TypeStyles[i][1] \o <<" ","="," ","T","e","x","t","S","t","y","l","e","(">>,
                               <<" "," "," "," "," "," "," "," ","f","o","n","t","F","a","m","i","l","y"," ","="," ">> \o (IF TypeStyles[i][2] THEN heading_family ELSE body_family) \o <<",">>,
                               <<" "," "," "," "," "," "," "," ","f","o","n","t","W","e","i","g","h","t"," ","="," ">> \o TypeStyles[i][5] \o <<",">>,
                               <<" "," "," "," "," "," "," "," ","f","o","n","t","S","i","z","e"," ","="," ">> \o (IF TypeStyles[i][3] = <<>> THEN TypeStyles[i][4]
                                                          ELSE Lookup(sizes.val, TypeStyles[i][3], TypeStyles[i][4])) \o <<".","s","p">>,
                               <<" "," "," "," ",")">> \o (IF i < Len(TypeStyles) THEN <<",">> ELSE <<>>)>>
             IN  Ok(Join(<<header.val, <<"p","a","c","k","a","g","e"," ","c","o","m",".","e","x","a","m","p","l","e",".","t","h","e","m","e","\n">>,
                           <<"i","m","p","o","r","t"," ","a","n","d","r","o","i","d","x",".","c","o","m","p","o","s","e",".","m","a","t","e","r","i","a","l","3",".","T","y","p","o","g","r","a","p","h","y">>,
                           <<"i","m","p","o","r","t"," ","a","n","d","r","o","i","d","x",".","c","o","m","p","o","s","e",".","u","i",".","t","e","x","t",".","T","e","x","t","S","t","y","l","e">>,
                           <<"i","m","p","o","r","t"," ","a","n","d","r","o","i","d","x",".","c","o","m","p","o","s","e",".","u","i",".","t","e","x","t",".","f","o","n","t",".","F","o","n","t">>,
                           <<"i","m","p","o","r","t"," ","a","n","d","r","o","i","d","x",".","c","o","m","p","o","s","e",".","u","i",".","t","e","x","t",".","f","o","n","t",".","F","o","n","t","F","a","m","i","l","y">>,
                           <<"i","m","p","o","r","t"," ","a","n","d","r","o","i","d","x",".","c","o","m","p","o","s","e",".","u","i",".","t","e","x","t",".","f","o","n","t",".","F","o","n","t","W","e","i","g","h","t">>,
                           <<"i","m","p","o","r","t"," ","a","n","d","r","o","i","d","x",".","c","o","m","p","o","s","e",".","u","i",".","u","n","i","t",".","s","p","\n">>>>
                         \o Flatten([i \in 1..Len(families.val) |-> FamilyLines(families.val[i].k, families.val[i].v, font_sources.val)])
                         \o <<<<>>, <<"v","a","l"," ","A","p","p","T","y","p","o","g","r","a","p","h","y"," ","="," ","T","y","p","o","g","r","a","p","h","y","(">>>>
                         \o Flatten([i \in 1..Len(TypeStyles) |-> style(i)])
                         \o <<<<")">>, <<>>>>, <<"\n">>))

generate_compose_shape(d, today) ==
    LET header == generate_header_comment(Meta(d), <<"J","e","t","p","a","c","k"," ","C","o","m","p","o","s","e"," ","-"," ","S","h","a","p","e","s">>, today)
        raw == SectionValues(d, <<"b","o","r","d","e","r","R","a","d","i","u","s">>)
        radii == IF raw.raised THEN Raise ELSE ConvertedValues(raw.val, px_to_dp)
    IN  IF header.raised \/ radii.raised THEN Raise
        ELSE LET shape(name, key, default) == <<" "," "," "," ">> \o name \o <<" ","="," ","R","o","u","n","d","e","d","C","o","r","n","e","r","S","h","a","p","e","(">> \o Lookup(radii.val, key, default) \o <<".","d","p",")">>
             IN  Ok(Join(<<header.val, <<"p","a","c","k","a","g","e"," ","c","o","m",".","e","x","a","m","p","l","e",".","t","h","e","m","e","\n">>,
                           <<"i","m","p","o","r","t"," ","a","n","d","r","o","i","d","x",".","c","o","m","p","o","s","e",".","f","o","u","n","d","a","t","i","o","n",".","s","h","a","p","e",".","R","o","u","n","d","e","d","C","o","r","n","e","r","S","h","a","p","e">>,
                           <<"i","m","p","o","r","t"," ","a","n","d","r","o","i","d","x",".","c","o","m","p","o","s","e",".","m","a","t","e","r","i","a","l","3",".","S","h","a","p","e","s">>,
                           <<"i","m","p","o","r","t"," ","a","n","d","r","o","i","d","x",".","c","o","m","p","o","s","e",".","u","i",".","u","n","i","t",".","d","p","\n">>>>
                         \o [i \in 1..Len(radii.val) |->
                               <<"v","a","l"," ","R","a","d","i","u","s">> \o token_name_to_kotlin(radii.val[i].k) \o <<" ","="," ","R","o","u","n","d","e","d","C","o","r","n","e","r","S","h","a","p","e","(">> \o radii.val[i].v \o <<".","d","p",")">>]
                         \o <<<<>>, <<"v","a","l"," ","A","p","p","S","h","a","p","e","s"," ","="," ","S","h","a","p","e","s","(">>,
                              shape(<<"e","x","t","r","a","S","m","a","l","l">>, <<"s","m">>, <<"4">>) \o <<",">>, shape(<<"s","m","a","l","l">>, <<"s","m">>, <<"4">>) \o <<",">>,
                              shape(<<"m","e","d","i","u","m">>, <<"m","d">>, <<"8">>) \o <<",">>, shape(<<"l","a","r","g","e">>, <<"l","g">>, <<"1","2">>) \o <<",">>,
                              shape(<<"e","x","t","r","a","L","a","r","g","e">>, <<"x","l">>, <<"1","6">>), <<")">>, <<>>>>, <<"\n">>))

\* the color scheme of Theme.kt: the entry and the color token it shows
SchemeMapping ==
    << <<<<"p","r","i","m","a","r","y">>, <<"p","r","i","m","a","r","y">>>>, <<<<"p","r","i","m","a","r","y","C","o","n","t","a","i","n","e","r">>, <<"p","r","i","m","a","r","y","-","l","i","g","h","t">>>>, <<<<"s","e","c","o","n","d","a","r","y">>, <<"s","e","c","o","n","d","a","r","y">>>>,
       <<<<"t","e","r","t","i","a","r","y">>, <<"a","c","c","e","n","t">>>>, <<<<"b","a","c","k","g","r","o","u","n","d">>, <<"b","a","c","k","g","r","o","u","n","d">>>>, <<<<"s","u","r","f","a","c","e">>, <<"s","u","r","f","a","c","e">>>>,
       <<<<"o","n","B","a","c","k","g","r","o","u","n","d">>, <<"t","e","x","t","-","p","r","i","m","a","r","y">>>>, <<<<"o","n","S","u","r","f","a","c","e">>, <<"t","e","x","t","-","p","r","i","m","a","r","y">>>>, <<<<"o","n","S","u","r","f","a","c","e","V","a","r","i","a","n","t">>, <<"t","e","x","t","-","s","e","c","o","n","d","a","r","y">>>>,
       <<<<"o","u","t","l","i","n","e">>, <<"b","o","r","d","e","r">>>>, <<<<"o","u","t","l","i","n","e","V","a","r","i","a","n","t">>, <<"b","o","r","d","e","r","-","l","i","g","h","t">>>>, <<<<"e","r","r","o","r">>, <<"e","r","r","o","r">>>> >>

generate_compose_theme(d, today) ==
    LET header == generate_header_comment(Meta(d), <<"J","e","t","p","a","c","k"," ","C","o","m","p","o","s","e"," ","-"," ","T","h","e","m","e">>, today)
        colors == SectionValues(d, <<"c","o","l","o","r">>)
    IN  IF header.raised \/ colors.raised THEN Raise
        ELSE LET present == SelectSeq(SchemeMapping, LAMBDA e : \E i \in 1..Len(colors.val) : colors.val[i].k = e[2])
                 entries == [i \in 1..Len(present) |-> <<" "," "," "," ">> \o present[i][1] \o <<" ","="," ">> \o token_name_to_kotlin(present[i][2])]
             IN  Ok(Join(<<header.val, <<"p","a","c","k","a","g","e"," ","c","o","m",".","e","x","a","m","p","l","e",".","t","h","e","m","e","\n">>,
                           <<"i","m","p","o","r","t"," ","a","n","d","r","o","i","d","x",".","c","o","m","p","o","s","e",".","m","a","t","e","r","i","a","l","3",".","M","a","t","e","r","i","a","l","T","h","e","m","e">>,
                           <<"i","m","p","o","r","t"," ","a","n","d","r","o","i","d","x",".","c","o","m","p","o","s","e",".","m","a","t","e","r","i","a","l","3",".","l","i","g","h","t","C","o","l","o","r","S","c","h","e","m","e">>,
                           <<"i","m","p","o","r","t"," ","a","n","d","r","o","i","d","x",".","c","o","m","p","o","s","e",".","r","u","n","t","i","m","e",".","C","o","m","p","o","s","a","b","l","e","\n">>,
                           <<"p","r","i","v","a","t","e"," ","v","a","l"," ","L","i","g","h","t","C","o","l","o","r","S","c","h","e","m","e"," ","="," ","l","i","g","h","t","C","o","l","o","r","S","c","h","e","m","e","(">>,
                           Join(entries, <<",","\n">>),
                           <<")","\n">>,
                           <<"@","C","o","m","p","o","s","a","b","l","e">>,
                           <<"f","u","n"," ","A","p","p","T","h","e","m","e","(","c","o","n","t","e","n","t",":"," ","@","C","o","m","p","o","s","a","b","l","e"," ","(",")"," ","-",">"," ","U","n","i","t",")"," ","{">>,
                           <<" "," "," "," ","M","a","t","e","r","i","a","l","T","h","e","m","e","(">>,
                           <<" "," "," "," "," "," "," "," ","c","o","l","o","r","S","c","h","e","m","e"," ","="," ","L","i","g","h","t","C","o","l","o","r","S","c","h","e","m","e",",">>,
                           <<" "," "," "," "," "," "," "," ","t","y","p","o","g","r","a","p","h","y"," ","="," ","A","p","p","T","y","p","o","g","r","a","p","h","y",",">>,
                           <<" "," "," "," "," "," "," "," ","s","h","a","p","e","s"," ","="," ","A","p","p","S","h","a","p","e","s",",">>,
                           <<" "," "," "," "," "," "," "," ","c","o","n","t","e","n","t"," ","="," ","c","o","n","t","e","n","t">>,
                           <<" "," "," "," ",")">>,
                           <<"}">>,
                           <<>>>>, <<"\n">>))

generate_compose_dimens(d, today) ==
    LET header == generate_header_comment(Meta(d), <<"J","e","t","p","a","c","k"," ","C","o","m","p","o","s","e"," ","-"," ","D","i","m","e","n","s","i","o","n","s">>, today)
        rawSpacings == SectionValues(d, <<"s","p","a","c","i","n","g">>)
        spacings == IF rawSpacings.raised THEN Raise ELSE ConvertedValues(rawSpacings.val, px_to_dp)
        rawRadii == SectionValues(d, <<"b","o","r","d","e","r","R","a","d","i","u","s">>)
        radii == IF rawRadii.raised THEN Raise ELSE ConvertedValues(rawRadii.val, px_to_dp)
    IN  IF header.raised \/ spacings.raised THEN Raise
        \* name[0] of the first, discarded list of lines: an empty name raises
        ELSE IF \E i \in 1..Len(spacings.val) : ~StartsWith(spacings.val[i].k, <<"s","p","a","c","e">>) /\ spacings.val[i].k = <<>> THEN Raise
        ELSE IF radii.raised THEN Raise
        ELSE Ok(Join(<<header.val, <<"p","a","c","k","a","g","e"," ","c","o","m",".","e","x","a","m","p","l","e",".","t","h","e","m","e","\n">>, <<"i","m","p","o","r","t"," ","a","n","d","r","o","i","d","x",".","c","o","m","p","o","s","e",".","u","i",".","u","n","i","t",".","d","p","\n">>,
                       <<"o","b","j","e","c","t"," ","D","i","m","e","n","s"," ","{">>, <<" "," "," "," ","/","/"," ","S","p","a","c","i","n","g">>>>
                     \o [i \in 1..Len(spacings.val) |-> <<" "," "," "," ","v","a","l"," ">> \o spacings.val[i].k \o <<" ","="," ">> \o spacings.val[i].v \o <<".","d","p">>]
                     \o <<<<>>, <<" "," "," "," ","/","/"," ","B","o","r","d","e","r"," ","R","a","d","i","u","s">>>>
                     \o [i \in 1..Len(radii.val) |->
                           <<" "," "," "," ","v","a","l"," ","r","a","d","i","u","s">> \o token_name_to_kotlin(radii.val[i].k) \o <<" ","="," ">> \o radii.val[i].v \o <<".","d","p">>]
                     \o <<<<"}">>, <<>>>>, <<"\n">>))

generate_xml_colors(d, today) ==
    LET header == generate_xml_header(Meta(d), <<"A","n","d","r","o","i","d"," ","X","M","L"," ","-"," ","C","o","l","o","r","s">>, today)
        colors == SectionValues(d, <<"c","o","l","o","r">>)
    IN  IF header.raised \/ colors.raised THEN Raise
        ELSE IF \E i \in 1..Len(colors.val) : ~IsStr(colors.val[i].v) THEN Raise
        ELSE Ok(Join(<<header.val, <<"<","r","e","s","o","u","r","c","e","s",">">>>>
                     \o [i \in 1..Len(colors.val) |->
                           <<" "," "," "," ","<","c","o","l","o","r"," ","n","a","m","e","=","\"">> \o token_name_to_xml(colors.val[i].k) \o <<"\"",">","#","F","F">>
                           \o Upper(LStrip(colors.val[i].v.v, {"#"})) \o <<"<","/","c","o","l","o","r",">">>]
                     \o <<<<"<","/","r","e","s","o","u","r","c","e","s",">">>, <<>>>>, <<"\n">>))

Dimen(name, val, unit) == <<" "," "," "," ","<","d","i","m","e","n"," ","n","a","m","e","=","\"">> \o name \o <<"\"",">">> \o val \o unit \o <<"<","/","d","i","m","e","n",">">>

generate_xml_dimens(d, today) ==
    LET header == generate_xml_header(Meta(d), <<"A","n","d","r","o","i","d"," ","X","M","L"," ","-"," ","D","i","m","e","n","s","i","o","n","s">>, today)
        rawSpacings == SectionValues(d, <<"s","p","a","c","i","n","g">>)
        spacings == IF rawSpacings.raised THEN Raise ELSE ConvertedValues(rawSpacings.val, px_to_dp)
        rawRadii == SectionValues(d, <<"b","o","r","d","e","r","R","a","d","i","u","s">>)
        radii == IF rawRadii.raised THEN Raise ELSE ConvertedValues(rawRadii.val, px_to_dp)
        rawSizes == GroupValues(d, <<"f","o","n","t","-","s","i","z","e">>)
        sizes == IF rawSizes.raised THEN Raise ELSE ConvertedValues(rawSizes.val, px_to_dp)
    IN  IF header.raised \/ spacings.raised \/ radii.raised \/ sizes.raised THEN Raise
        ELSE Ok(Join(<<header.val, <<"<","r","e","s","o","u","r","c","e","s",">">>, <<" "," "," "," ","<","!","-","-"," ","S","p","a","c","i","n","g"," ","-","-",">">>>>
                     \o [i \in 1..Len(spacings.val) |-> Dimen(Replace(spacings.val[i].k, <<"s","p","a","c","e">>, <<"s","p","a","c","e","_">>), spacings.val[i].v, <<"d","p">>)]
                     \o <<<<>>, <<" "," "," "," ","<","!","-","-"," ","B","o","r","d","e","r"," ","R","a","d","i","u","s"," ","-","-",">">>>>
                     \o [i \in 1..Len(radii.val) |-> Dimen(<<"r","a","d","i","u","s","_">> \o token_name_to_xml(radii.val[i].k), radii.val[i].v, <<"d","p">>)]
                     \o <<<<>>, <<" "," "," "," ","<","!","-","-"," ","F","o","n","t"," ","S","i","z","e","s"," ","-","-",">">>>>
                     \o [i \in 1..Len(sizes.val) |-> Dimen(<<"f","o","n","t","_","s","i","z","e","_">> \o token_name_to_xml(sizes.val[i].k), sizes.val[i].v, <<"s","p">>)]
                     \o <<<<"<","/","r","e","s","o","u","r","c","e","s",">">>, <<>>>>, <<"\n">>))

\* the text styles of styles.xml: name, size token, size without it, style
TextStyles ==
    << <<<<"T","e","x","t","A","p","p","e","a","r","a","n","c","e",".","H","e","a","d","i","n","g",".","L","a","r","g","e">>, <<"3","x","l">>, <<"3","0">>, <<"b","o","l","d">>>>,
       <<<<"T","e","x","t","A","p","p","e","a","r","a","n","c","e",".","H","e","a","d","i","n","g",".","M","e","d","i","u","m">>, <<"2","x","l">>, <<"2","4">>, <<"b","o","l","d">>>>,
       <<<<"T","e","x","t","A","p","p","e","a","r","a","n","c","e",".","H","e","a","d","i","n","g",".","S","m","a","l","l">>, <<"x","l">>, <<"2","0">>, <<"b","o","l","d">>>>,
       <<<<"T","e","x","t","A","p","p","e","a","r","a","n","c","e",".","B","o","d","y",".","L","a","r","g","e">>, <<"b","a","s","e">>, <<"1","6">>, <<"n","o","r","m","a","l">>>>,
       <<<<"T","e","x","t","A","p","p","e","a","r","a","n","c","e",".","B","o","d","y",".","M","e","d","i","u","m">>, <<"s","m">>, <<"1","4">>, <<"n","o","r","m","a","l">>>>,
       <<<<"T","e","x","t","A","p","p","e","a","r","a","n","c","e",".","B","o","d","y",".","S","m","a","l","l">>, <<"x","s">>, <<"1","2">>, <<"n","o","r","m","a","l">>>>,
       <<<<"T","e","x","t","A","p","p","e","a","r","a","n","c","e",".","L","a","b","e","l",".","L","a","r","g","e">>, <<"s","m">>, <<"1","4">>, <<"b","o","l","d">>>>,
       <<<<"T","e","x","t","A","p","p","e","a","r","a","n","c","e",".","L","a","b","e","l",".","M","e","d","i","u","m">>, <<"x","s">>, <<"1","2">>, <<"b","o","l","d">>>> >>

\* the sources that are not "system"
NonSystem(sources) == SelectSeq(sources, LAMBDA m : m.v # JStr(<<"s","y","s","t","e","m">>))

generate_xml_styles(d, today) ==
    LET header == generate_xml_header(Meta(d), <<"A","n","d","r","o","i","d"," ","X","M","L"," ","-"," ","S","t","y","l","e","s">>, today)
        font_sources == mobile_font_sources(d)
        families == collect_font_families(d)
        rawSizes == GroupValues(d, <<"f","o","n","t","-","s","i","z","e">>)
        sizes == IF rawSizes.raised THEN Raise ELSE ConvertedValues(rawSizes.val, px_to_dp)
        weights == GroupValues(d, <<"f","o","n","t","-","w","e","i","g","h","t">>)
    IN  IF header.raised \/ font_sources.raised \/ families.raised \/ sizes.raised \/ weights.raised THEN Raise
        ELSE LET non_system == NonSystem(font_sources.val)
                 style(i) == <<<<" "," "," "," ","<","s","t","y","l","e"," ","n","a","m","e","=","\"">> \o TextStyles[i][1] \o <<"\""," ","p","a","r","e","n","t","=","\"","T","e","x","t","A","p","p","e","a","r","a","n","c","e",".","M","a","t","e","r","i","a","l","3",".","B","o","d","y","M","e","d","i","u","m","\"",">">>,
                               <<" "," "," "," "," "," "," "," ","<","i","t","e","m"," ","n","a","m","e","=","\"","a","n","d","r","o","i","d",":","t","e","x","t","S","i","z","e","\"",">">> \o Lookup(sizes.val, TextStyles[i][2], TextStyles[i][3]) \o <<"s","p","<","/","i","t","e","m",">">>,
                               <<" "," "," "," "," "," "," "," ","<","i","t","e","m"," ","n","a","m","e","=","\"","a","n","d","r","o","i","d",":","t","e","x","t","S","t","y","l","e","\"",">">> \o TextStyles[i][4] \o <<"<","/","i","t","e","m",">">>,
                               <<" "," "," "," ","<","/","s","t","y","l","e",">">>, <<>>>>
             IN  Ok(Join(<<header.val, <<"<","r","e","s","o","u","r","c","e","s",">">>>>
                         \o (IF non_system = <<>> THEN <<>>
                             ELSE <<<<" "," "," "," ","<","!","-","-"," ","F","o","n","t"," ","S","o","u","r","c","e","s"," ","-","-",">">>>>
                                  \o Flatten([i \in 1..Len(non_system) |->
                                        <<<<" "," "," "," ","<","!","-","-"," ">> \o Lookup(families.val, non_system[i].k, non_system[i].k) \o <<":"," ">> \o PyStr(non_system[i].v) \o <<" ","-","-",">">>,
                                          <<" "," "," "," ","<","!","-","-"," ","D","o","w","n","l","o","a","d"," ",".","t","t","f"," ","f","i","l","e","s"," ","a","n","d"," ","p","l","a","c","e"," ","i","n"," ","r","e","s","/","f","o","n","t","/"," ","-","-",">">>>>])
                                  \o <<<<>>>>)
                         \o Flatten([i \in 1..Len(TextStyles) |-> style(i)])
                         \o <<<<" "," "," "," ","<","s","t","y","l","e"," ","n","a","m","e","=","\"","W","i","d","g","e","t",".","A","p","p",".","B","u","t","t","o","n",".","P","r","i","m","a","r","y","\""," ","p","a","r","e","n","t","=","\"","W","i","d","g","e","t",".","M","a","t","e","r","i","a","l","3",".","B","u","t","t","o","n","\"",">">>,
                              <<" "," "," "," "," "," "," "," ","<","i","t","e","m"," ","n","a","m","e","=","\"","b","a","c","k","g","r","o","u","n","d","T","i","n","t","\"",">","@","c","o","l","o","r","/","p","r","i","m","a","r","y","<","/","i","t","e","m",">">>,
                              <<" "," "," "," "," "," "," "," ","<","i","t","e","m"," ","n","a","m","e","=","\"","c","o","r","n","e","r","R","a","d","i","u","s","\"",">","@","d","i","m","e","n","/","r","a","d","i","u","s","_","m","d","<","/","i","t","e","m",">">>,
                              <<" "," "," "," ","<","/","s","t","y","l","e",">">>,
                              <<>>,
                              <<" "," "," "," ","<","s","t","y","l","e"," ","n","a","m","e","=","\"","W","i","d","g","e","t",".","A","p","p",".","C","a","r","d","\""," ","p","a","r","e","n","t","=","\"","W","i","d","g","e","t",".","M","a","t","e","r","i","a","l","3",".","C","a","r","d","V","i","e","w",".","E","l","e","v","a","t","e","d","\"",">">>,
                              <<" "," "," "," "," "," "," "," ","<","i","t","e","m"," ","n","a","m","e","=","\"","c","a","r","d","C","o","r","n","e","r","R","a","d","i","u","s","\"",">","@","d","i","m","e","n","/","r","a","d","i","u","s","_","l","g","<","/","i","t","e","m",">">>,
                              <<" "," "," "," "," "," "," "," ","<","i","t","e","m"," ","n","a","m","e","=","\"","c","o","n","t","e","n","t","P","a","d","d","i","n","g","\"",">","@","d","i","m","e","n","/","s","p","a","c","e","_","6","<","/","i","t","e","m",">">>,
                              <<" "," "," "," ","<","/","s","t","y","l","e",">">>,
                              <<"<","/","r","e","s","o","u","r","c","e","s",">">>, <<>>>>, <<"\n">>))

generate_xml_themes(d, today) ==
    LET header == generate_xml_header(Meta(d), <<"A","n","d","r","o","i","d"," ","X","M","L"," ","-"," ","T","h","e","m","e">>, today)
    IN  IF header.raised THEN Raise
        ELSE Ok(Join(<<header.val, <<"<","r","e","s","o","u","r","c","e","s",">">>, <<>>,
                       <<" "," "," "," ","<","s","t","y","l","e"," ","n","a","m","e","=","\"","T","h","e","m","e",".","A","p","p","\""," ","p","a","r","e","n","t","=","\"","T","h","e","m","e",".","M","a","t","e","r","i","a","l","3",".","L","i","g","h","t",".","N","o","A","c","t","i","o","n","B","a","r","\"",">">>,
                       <<" "," "," "," "," "," "," "," ","<","!","-","-"," ","P","r","i","m","a","r","y"," ","-","-",">">>,
                       <<" "," "," "," "," "," "," "," ","<","i","t","e","m"," ","n","a","m","e","=","\"","c","o","l","o","r","P","r","i","m","a","r","y","\"",">","@","c","o","l","o","r","/","p","r","i","m","a","r","y","<","/","i","t","e","m",">">>,
                       <<" "," "," "," "," "," "," "," ","<","i","t","e","m"," ","n","a","m","e","=","\"","c","o","l","o","r","O","n","P","r","i","m","a","r","y","\"",">","#","F","F","F","F","F","F","<","/","i","t","e","m",">">>,
                       <<" "," "," "," "," "," "," "," ","<","i","t","e","m"," ","n","a","m","e","=","\"","c","o","l","o","r","P","r","i","m","a","r","y","C","o","n","t","a","i","n","e","r","\"",">","@","c","o","l","o","r","/","p","r","i","m","a","r","y","_","l","i","g","h","t","<","/","i","t","e","m",">">>,
                       <<>>,
                       <<" "," "," "," "," "," "," "," ","<","!","-","-"," ","S","e","c","o","n","d","a","r","y"," ","-","-",">">>,
                       <<" "," "," "," "," "," "," "," ","<","i","t","e","m"," ","n","a","m","e","=","\"","c","o","l","o","r","S","e","c","o","n","d","a","r","y","\"",">","@","c","o","l","o","r","/","s","e","c","o","n","d","a","r","y","<","/","i","t","e","m",">">>,
                       <<>>,
                       <<" "," "," "," "," "," "," "," ","<","!","-","-"," ","T","e","r","t","i","a","r","y"," ","-","-",">">>,
                       <<" "," "," "," "," "," "," "," ","<","i","t","e","m"," ","n","a","m","e","=","\"","c","o","l","o","r","T","e","r","t","i","a","r","y","\"",">","@","c","o","l","o","r","/","a","c","c","e","n","t","<","/","i","t","e","m",">">>,
                       <<>>,
                       <<" "," "," "," "," "," "," "," ","<","!","-","-"," ","B","a","c","k","g","r","o","u","n","d"," ","&"," ","S","u","r","f","a","c","e"," ","-","-",">">>,
                       <<" "," "," "," "," "," "," "," ","<","i","t","e","m"," ","n","a","m","e","=","\"","a","n","d","r","o","i","d",":","c","o","l","o","r","B","a","c","k","g","r","o","u","n","d","\"",">","@","c","o","l","o","r","/","b","a","c","k","g","r","o","u","n","d","<","/","i","t","e","m",">">>,
                       <<" "," "," "," "," "," "," "," ","<","i","t","e","m"," ","n","a","m","e","=","\"","c","o","l","o","r","S","u","r","f","a","c","e","\"",">","@","c","o","l","o","r","/","s","u","r","f","a","c","e","<","/","i","t","e","m",">">>,
                       <<" "," "," "," "," "," "," "," ","<","i","t","e","m"," ","n","a","m","e","=","\"","c","o","l","o","r","O","n","B","a","c","k","g","r","o","u","n","d","\"",">","@","c","o","l","o","r","/","t","e","x","t","_","p","r","i","m","a","r","y","<","/","i","t","e","m",">">>,
                       <<" "," "," "," "," "," "," "," ","<","i","t","e","m"," ","n","a","m","e","=","\"","c","o","l","o","r","O","n","S","u","r","f","a","c","e","\"",">","@","c","o","l","o","r","/","t","e","x","t","_","p","r","i","m","a","r","y","<","/","i","t","e","m",">">>,
                       <<" "," "," "," "," "," "," "," ","<","i","t","e","m"," ","n","a","m","e","=","\"","c","o","l","o","r","O","n","S","u","r","f","a","c","e","V","a","r","i","a","n","t","\"",">","@","c","o","l","o","r","/","t","e","x","t","_","s","e","c","o","n","d","a","r","y","<","/","i","t","e","m",">">>,
                       <<>>,
                       <<" "," "," "," "," "," "," "," ","<","!","-","-"," ","O","u","t","l","i","n","e"," ","-","-",">">>,
                       <<" "," "," "," "," "," "," "," ","<","i","t","e","m"," ","n","a","m","e","=","\"","c","o","l","o","r","O","u","t","l","i","n","e","\"",">","@","c","o","l","o","r","/","b","o","r","d","e","r","<","/","i","t","e","m",">">>,
                       <<" "," "," "," "," "," "," "," ","<","i","t","e","m"," ","n","a","m","e","=","\"","c","o","l","o","r","O","u","t","l","i","n","e","V","a","r","i","a","n","t","\"",">","@","c","o","l","o","r","/","b","o","r","d","e","r","_","l","i","g","h","t","<","/","i","t","e","m",">">>,
                       <<>>,
                       <<" "," "," "," "," "," "," "," ","<","!","-","-"," ","E","r","r","o","r"," ","-","-",">">>,
                       <<" "," "," "," "," "," "," "," ","<","i","t","e","m"," ","n","a","m","e","=","\"","c","o","l","o","r","E","r","r","o","r","\"",">","@","c","o","l","o","r","/","e","r","r","o","r","<","/","i","t","e","m",">">>,
                       <<" "," "," "," ","<","/","s","t","y","l","e",">">>,
                       <<>>,
                       <<"<","/","r","e","s","o","u","r","c","e","s",">">>, <<>>>>, <<"\n">>))

(***************************************************************************)
(* generate_swift.py                                                       *)
(***************************************************************************)
token_name_to_swift(name) ==
    LET parts == Split(name, "-")
    IN  parts[1] \o Flatten([i \in 1..(Len(parts) - 1) |-> Capitalize(parts[i + 1])])

swift_header_comment(meta, target, today) ==
    IF ~IsDict(meta) THEN Raise
    ELSE LET h == HeaderFields(meta)
         IN  Ok(<<"/","/","\n","/","/"," ">> \o h.name \o <<"\n","/","/"," ","S","o","u","r","c","e",":"," ">> \o h.source \o <<"\n","/","/"," ","V","e","r","s","i","o","n",":"," ">> \o h.version
                \o <<"\n","/","/"," ","G","e","n","e","r","a","t","e","d",":"," ">> \o today \o <<"\n","/","/"," ","F","o","r","m","a","t",":"," ">> \o target \o <<"\n","/","/","\n">>)

\* the pairs with the key turned into a Swift name
SwiftNamed(pairs) == [i \in 1..Len(pairs) |-> Mem(token_name_to_swift(pairs[i].k), pairs[i].v)]

\* the position after the longest run of characters of a set that starts
\* at i
RECURSIVE RunEnd(_, _, _)
RunEnd(v, i, chars) == IF i <= Len(v) /\ v[i] \in chars THEN RunEnd(v, i + 1, chars) ELSE i

\* The scan of shadow_re, x y blur [spread] rgba(r, g, b, a) with optional
\* "px" and white space between: a position is where the scan stands, 0
\* once the text has failed to match.

\* after the number -?\d+(?:\.\d+)? at p
NumEnd(v, p) ==
    IF p = 0 THEN 0
    ELSE Bind(RunEnd(v, IF p <= Len(v) /\ v[p] = "-" THEN p + 1 ELSE p, DigitChars), LAMBDA b :
           IF b = 0 \/ b = p \/ (b = p + 1 /\ v[p] = "-") THEN 0
           ELSE IF b <= Len(v) /\ v[b] = "." /\ RunEnd(v, b + 1, DigitChars) > b + 1 THEN RunEnd(v, b + 1, DigitChars)
           ELSE b)

\* after an optional "px" at p
PxEnd(v, p) == IF p # 0 /\ p + 1 <= Len(v) /\ v[p] = "p" /\ v[p + 1] = "x" THEN p + 2 ELSE p

\* after the white space \s+ at p
SpaceEnd(v, p) == IF p = 0 \/ RunEnd(v, p, WhiteChars) = p THEN 0 ELSE RunEnd(v, p, WhiteChars)

\* after \s*, characters of chars, \s* and the character stop, from p
ChannelEnd(v, p, chars, stop) ==
    IF p = 0 THEN 0
    ELSE Bind(RunEnd(v, p, WhiteChars), LAMBDA a :
           Bind(RunEnd(v, RunEnd(v, a, chars), WhiteChars), LAMBDA c :
             IF RunEnd(v, a, chars) > a /\ c <= Len(v) /\ v[c] = stop THEN c + 1 ELSE 0))

\* the characters of chars after the white space at p
ChannelText(v, p, chars) == SubSeq(v, RunEnd(v, p, WhiteChars), RunEnd(v, RunEnd(v, p, WhiteChars), chars) - 1)

XEnd(v, i) == NumEnd(v, i)

YStart(v, i) == SpaceEnd(v, PxEnd(v, XEnd(v, i)))

YEnd(v, i) == NumEnd(v, YStart(v, i))

BlurStart(v, i) == SpaceEnd(v, PxEnd(v, YEnd(v, i)))

BlurEnd(v, i) == NumEnd(v, BlurStart(v, i))

\* after the optional spread: \s+ and a number with its "px", or nothing
SpreadEnd(v, i) ==
    Bind(PxEnd(v, BlurEnd(v, i)), LAMBDA p :
      IF NumEnd(v, SpaceEnd(v, p)) = 0 THEN p ELSE PxEnd(v, NumEnd(v, SpaceEnd(v, p))))

\* after \s+rgba\(
ColorStart(v, i) ==
    Bind(SpaceEnd(v, SpreadEnd(v, i)), LAMBDA p :
      IF p # 0 /\ p + 4 <= Len(v) /\ SubSeq(v, p, p + 4) = <<"r","g","b","a","(">> THEN p + 5 ELSE 0)

REnd(v, i) == ChannelEnd(v, ColorStart(v, i), DigitChars, ",")

GEnd(v, i) == ChannelEnd(v, REnd(v, i), DigitChars, ",")

BEnd(v, i) == ChannelEnd(v, GEnd(v, i), DigitChars, ",")

AEnd(v, i) == ChannelEnd(v, BEnd(v, i), DigitChars \cup {"."}, ")")

\* the match of shadow_re that starts at i, with its groups
ShadowAt(v, i) ==
    IF AEnd(v, i) = 0 THEN [ok |-> FALSE]
    ELSE [ok |-> TRUE, x |-> SubSeq(v, i, XEnd(v, i) - 1), y |-> SubSeq(v, YStart(v, i), YEnd(v, i) - 1),
          blur |-> SubSeq(v, BlurStart(v, i), BlurEnd(v, i) - 1),
          r |-> ChannelText(v, ColorStart(v, i), DigitChars), g |-> ChannelText(v, REnd(v, i), DigitChars),
          b |-> ChannelText(v, GEnd(v, i), DigitChars), a |-> ChannelText(v, BEnd(v, i), DigitChars \cup {"."})]

\* shadow_re.search(v): the leftmost match
ShadowSearch(v) ==
    Bind({i \in 1..Len(v) : AEnd(v, i) # 0}, LAMBDA starts :
      IF starts = {} THEN [ok |-> FALSE] ELSE ShadowAt(v, CHOOSE i \in starts : \A h \in starts : i <= h))

collect_shadows(d) ==
    Then(SectionValues(d, <<"s","h","a","d","o","w">>), LAMBDA raw :
        IF \E i \in 1..Len(raw) : ~IsStr(raw[i].v) THEN Raise
        ELSE Ok(SelectSeq([i \in 1..Len(raw) |-> Mem(token_name_to_swift(raw[i].k), ShadowSearch(raw[i].v.v))],
                          LAMBDA m : m.v.ok)))

\* weight_map.get(val, ".regular")
SwiftWeight(val) ==
    CASE val = JStr(<<"4","0","0">>) -> <<".","r","e","g","u","l","a","r">> [] val = JStr(<<"5","0","0">>) -> <<".","m","e","d","i","u","m">> [] val = JStr(<<"6","0","0">>) -> <<".","s","e","m","i","b","o","l","d">>
      [] val = JStr(<<"7","0","0">>) -> <<".","b","o","l","d">> [] OTHER -> <<".","r","e","g","u","l","a","r">>

\* what both Swift files collect; a weight that cannot be a key raises
SwiftTokens(d) ==
    Bind(<<SectionValues(d, <<"c","o","l","o","r">>),
           collect_font_families(d),
           Then(GroupValues(d, <<"f","o","n","t","-","s","i","z","e">>), LAMBDA raw : ConvertedValues(raw, px_to_cgfloat)),
           GroupValues(d, <<"f","o","n","t","-","w","e","i","g","h","t">>),
           GroupValues(d, <<"l","i","n","e","-","h","e","i","g","h","t">>),
           mobile_font_sources(d),
           Then(SectionValues(d, <<"s","p","a","c","i","n","g">>), LAMBDA raw : ConvertedValues(raw, px_to_cgfloat)),
           Then(SectionValues(d, <<"b","o","r","d","e","r","R","a","d","i","u","s">>), LAMBDA raw : ConvertedValues(raw, px_to_cgfloat))>>,
         LAMBDA r :
           IF \E i \in 1..Len(r) : r[i].raised THEN Raise
           ELSE IF \E i \in 1..Len(r[4].val) : ~Hashable(r[4].val[i].v) THEN Raise
           ELSE Ok([colors |-> SwiftNamed(r[1].val), families |-> r[2].val, sizes |-> SwiftNamed(r[3].val),
                    weights |-> SwiftNamed(r[4].val), line_heights |-> SwiftNamed(r[5].val),
                    font_sources |-> r[6].val,
                    spacings |-> [i \in 1..Len(r[7].val) |-> Mem(<<"s","p","a","c","e">> \o r[7].val[i].k, r[7].val[i].v)],
                    radii |-> SwiftNamed(r[8].val)]))

\* the comments on the registration of the fonts
RegistrationLines(tk, indent, title) ==
    LET non_system == NonSystem(tk.font_sources)
        system_fonts == SelectSeq(tk.font_sources, LAMBDA m : m.v = JStr(<<"s","y","s","t","e","m">>))
        family(name) == Lookup(tk.families, name, name)
    IN  IF non_system = <<>> THEN <<>>
        ELSE <<indent \o title,
               indent \o <<"/","/"," ","T","o"," ","u","s","e"," ","c","u","s","t","o","m"," ","f","o","n","t","s",","," ","d","o","w","n","l","o","a","d"," ","t","h","e"," ","f","o","n","t"," ","f","i","l","e","s"," ","a","n","d"," ","a","d","d"," ","t","h","e","m"," ","t","o"," ","y","o","u","r"," ","X","c","o","d","e"," ","p","r","o","j","e","c","t",".">>,
               indent \o <<"/","/"," ","R","e","g","i","s","t","e","r"," ","e","a","c","h"," ","f","o","n","t"," ","f","i","l","e"," ","i","n"," ","I","n","f","o",".","p","l","i","s","t"," ","u","n","d","e","r"," ","t","h","e"," ","\"","U","I","A","p","p","F","o","n","t","s","\""," ","k","e","y",".">>,
               indent \o <<"/","/">>>>
             \o Flatten([i \in 1..Len(non_system) |->
                   <<indent \o <<"/","/"," ","F","o","n","t",":"," ">> \o family(non_system[i].k),
                     indent \o <<"/","/"," "," "," ","S","o","u","r","c","e",":"," ">> \o PyStr(non_system[i].v),
                     indent \o <<"/","/"," "," "," ","A","d","d"," ","t","o"," ","I","n","f","o",".","p","l","i","s","t"," ","U","I","A","p","p","F","o","n","t","s",":"," ","\"">> \o family(non_system[i].k) \o <<"-","R","e","g","u","l","a","r",".","t","t","f","\"",","," ","\"">>
                       \o family(non_system[i].k) \o <<"-","B","o","l","d",".","t","t","f","\"",","," ","e","t","c",".">>>>])
             \o (IF system_fonts = <<>> THEN <<>>
                 ELSE <<indent \o <<"/","/">>>>
                      \o [i \in 1..Len(system_fonts) |->
                            indent \o <<"/","/"," ","F","o","n","t",":"," ">> \o system_fonts[i].k \o <<" ">> \o <<EmDash>> \o <<" ","s","y","s","t","e","m"," ","f","o","n","t",","," ","n","o"," ","r","e","g","i","s","t","r","a","t","i","o","n"," ","n","e","e","d","e","d">>])
             \o <<<<>>>>

\* the constants of the fonts of both Swift files
FontConstants(tk, indent, size, weight, kind) ==
    [i \in 1..Len(tk.families) |->
        indent \o <<"s","t","a","t","i","c"," ","l","e","t"," ","f","o","n","t","F","a","m","i","l","y">> \o Capitalize(tk.families[i].k) \o <<" ","="," ","\"">> \o tk.families[i].v \o <<"\"">>]
    \o <<<<>>>>
    \o [i \in 1..Len(tk.sizes) |-> indent \o <<"s","t","a","t","i","c"," ","l","e","t"," ">> \o size \o Capitalize(tk.sizes[i].k) \o <<":"," ","C","G","F","l","o","a","t"," ","="," ">> \o tk.sizes[i].v]
    \o <<<<>>>>
    \o [i \in 1..Len(tk.weights) |->
          indent \o <<"s","t","a","t","i","c"," ","l","e","t"," ">> \o weight \o Capitalize(tk.weights[i].k) \o <<":"," ">> \o kind \o <<" ","="," ">> \o SwiftWeight(tk.weights[i].v)]
    \o <<<<>>>>
    \o [i \in 1..Len(tk.line_heights) |->
          indent \o <<"s","t","a","t","i","c"," ","l","e","t"," ","l","i","n","e","H","e","i","g","h","t">> \o Capitalize(tk.line_heights[i].k) \o <<":"," ","C","G","F","l","o","a","t"," ","="," ">> \o PyStr(tk.line_heights[i].v)]
    \o <<<<>>>>

CGFloats(pairs, indent) ==
    [i \in 1..Len(pairs) |-> indent \o <<"s","t","a","t","i","c"," ","l","e","t"," ">> \o pairs[i].k \o <<":"," ","C","G","F","l","o","a","t"," ","="," ">> \o pairs[i].v]

\* int(text) of a run of digits, as text
IntText(text) == IF StripLeadingZeros(text) = <<>> THEN <<"0">> ELSE StripLeadingZeros(text)

\* the constant of one shadow in the SwiftUI file
ShadowConstant(name, s) ==
    <<<<" "," "," "," ","s","t","a","t","i","c"," ","l","e","t"," ">> \o name \o <<" ","="," ","D","S","S","h","a","d","o","w","(">>,
      <<" "," "," "," "," "," "," "," ","c","o","l","o","r",":"," ","C","o","l","o","r","(",".","s","R","G","B",","," ","r","e","d",":"," ">> \o IntText(s.r) \o <<"/","2","5","5",","," ","g","r","e","e","n",":"," ">> \o IntText(s.g)
        \o <<"/","2","5","5",","," ","b","l","u","e",":"," ">> \o IntText(s.b) \o <<"/","2","5","5",","," ","o","p","a","c","i","t","y",":"," ">> \o s.a \o <<")",",">>,
      <<" "," "," "," "," "," "," "," ","r","a","d","i","u","s",":"," ">> \o s.blur \o <<",">>,
      <<" "," "," "," "," "," "," "," ","x",":"," ">> \o s.x \o <<",">>,
      <<" "," "," "," "," "," "," "," ","y",":"," ">> \o s.y,
      <<" "," "," "," ",")">>>>

generate_swiftui(d, today) ==
    Then(swift_header_comment(Meta(d), <<"S","w","i","f","t","U","I">>, today), LAMBDA header :
    Then(SwiftTokens(d), LAMBDA tk :
    Then(collect_shadows(d), LAMBDA shadows :
                 Ok(Join(<<header, <<"i","m","p","o","r","t"," ","S","w","i","f","t","U","I","\n">>, <<"/","/"," ","M","A","R","K",":"," ","-"," ","C","o","l","o","r"," ","H","e","x"," ","E","x","t","e","n","s","i","o","n","\n">>,
                           <<"e","x","t","e","n","s","i","o","n"," ","C","o","l","o","r"," ","{">>,
                           <<" "," "," "," ","i","n","i","t","(","h","e","x",":"," ","S","t","r","i","n","g",")"," ","{">>,
                           <<" "," "," "," "," "," "," "," ","l","e","t"," ","h","e","x"," ","="," ","h","e","x",".","t","r","i","m","m","i","n","g","C","h","a","r","a","c","t","e","r","s","(","i","n",":"," ","C","h","a","r","a","c","t","e","r","S","e","t",".","a","l","p","h","a","n","u","m","e","r","i","c","s",".","i","n","v","e","r","t","e","d",")">>,
                           <<" "," "," "," "," "," "," "," ","v","a","r"," ","i","n","t",":"," ","U","I","n","t","6","4"," ","="," ","0">>,
                           <<" "," "," "," "," "," "," "," ","S","c","a","n","n","e","r","(","s","t","r","i","n","g",":"," ","h","e","x",")",".","s","c","a","n","H","e","x","I","n","t","6","4","(","&","i","n","t",")">>,
                           <<" "," "," "," "," "," "," "," ","l","e","t"," ","r"," ","="," ","D","o","u","b","l","e","(","(","i","n","t"," ",">",">"," ","1","6",")"," ","&"," ","0","x","F","F",")"," ","/"," ","2","5","5",".","0">>,
                           <<" "," "," "," "," "," "," "," ","l","e","t"," ","g"," ","="," ","D","o","u","b","l","e","(","(","i","n","t"," ",">",">"," ","8",")"," ","&"," ","0","x","F","F",")"," ","/"," ","2","5","5",".","0">>,
                           <<" "," "," "," "," "," "," "," ","l","e","t"," ","b"," ","="," ","D","o","u","b","l","e","(","i","n","t"," ","&"," ","0","x","F","F",")"," ","/"," ","2","5","5",".","0">>,
                           <<" "," "," "," "," "," "," "," ","s","e","l","f",".","i","n","i","t","(","r","e","d",":"," ","r",","," ","g","r","e","e","n",":"," ","g",","," ","b","l","u","e",":"," ","b",")">>,
                           <<" "," "," "," ","}">>,
                           <<"}","\n">>,
                           <<"/","/"," ","M","A","R","K",":"," ","-"," ","C","o","l","o","r","s","\n">>, <<"s","t","r","u","c","t"," ","D","S","C","o","l","o","r","s"," ","{">>>>
                         \o [i \in 1..Len(tk.colors) |->
                               <<" "," "," "," ","s","t","a","t","i","c"," ","l","e","t"," ">> \o tk.colors[i].k \o <<" ","="," ","C","o","l","o","r","(","h","e","x",":"," ","\"">> \o PyStr(tk.colors[i].v) \o <<"\"",")">>]
                         \o <<<<"}","\n">>, <<"/","/"," ","M","A","R","K",":"," ","-"," ","T","y","p","o","g","r","a","p","h","y","\n">>, <<"s","t","r","u","c","t"," ","D","S","T","y","p","o","g","r","a","p","h","y"," ","{">>>>
                         \o FontConstants(tk, <<" "," "," "," ">>, <<"f","o","n","t","S","i","z","e">>, <<"f","o","n","t","W","e","i","g","h","t">>, <<"F","o","n","t",".","W","e","i","g","h","t">>)
                         \o Flatten([i \in 1..Len(tk.families) |->
                               <<<<" "," "," "," ","s","t","a","t","i","c"," ","f","u","n","c"," ">> \o tk.families[i].k \o <<"(","_"," ","s","i","z","e",":"," ","C","G","F","l","o","a","t",","," ","w","e","i","g","h","t",":"," ","F","o","n","t",".","W","e","i","g","h","t"," ","="," ",".","r","e","g","u","l","a","r",")"," ","-",">"," ","F","o","n","t"," ","{">>,
                                 <<" "," "," "," "," "," "," "," ",".","c","u","s","t","o","m","(","\"">> \o tk.families[i].v \o <<"\"",","," ","s","i","z","e",":"," ","s","i","z","e",")",".","w","e","i","g","h","t","(","w","e","i","g","h","t",")">>,
                                 <<" "," "," "," ","}">>>>])
                         \o <<<<"}","\n">>>>
                         \o RegistrationLines(tk, <<>>, <<"/","/"," ","M","A","R","K",":"," ","-"," ","F","o","n","t"," ","R","e","g","i","s","t","r","a","t","i","o","n","\n">>)
                         \o <<<<"/","/"," ","M","A","R","K",":"," ","-"," ","S","p","a","c","i","n","g","\n">>, <<"e","n","u","m"," ","D","S","S","p","a","c","i","n","g"," ","{">>>>
                         \o CGFloats(tk.spacings, <<" "," "," "," ">>)
                         \o <<<<"}","\n">>, <<"/","/"," ","M","A","R","K",":"," ","-"," ","B","o","r","d","e","r"," ","R","a","d","i","u","s","\n">>, <<"e","n","u","m"," ","D","S","R","a","d","i","u","s"," ","{">>>>
                         \o CGFloats(tk.radii, <<" "," "," "," ">>)
                         \o <<<<"}","\n">>, <<"/","/"," ","M","A","R","K",":"," ","-"," ","S","h","a","d","o","w","s","\n">>, <<"s","t","r","u","c","t"," ","D","S","S","h","a","d","o","w"," ","{">>,
                              <<" "," "," "," ","l","e","t"," ","c","o","l","o","r",":"," ","C","o","l","o","r">>, <<" "," "," "," ","l","e","t"," ","r","a","d","i","u","s",":"," ","C","G","F","l","o","a","t">>, <<" "," "," "," ","l","e","t"," ","x",":"," ","C","G","F","l","o","a","t">>, <<" "," "," "," ","l","e","t"," ","y",":"," ","C","G","F","l","o","a","t">>, <<>>>>
                         \o Flatten([i \in 1..Len(shadows) |-> ShadowConstant(shadows[i].k, shadows[i].v)])
                         \o <<<<"}","\n">>, <<"/","/"," ","M","A","R","K",":"," ","-"," ","S","h","a","d","o","w"," ","V","i","e","w","M","o","d","i","f","i","e","r","\n">>,
                              <<"s","t","r","u","c","t"," ","D","S","S","h","a","d","o","w","M","o","d","i","f","i","e","r",":"," ","V","i","e","w","M","o","d","i","f","i","e","r"," ","{">>,
                              <<" "," "," "," ","l","e","t"," ","s","h","a","d","o","w",":"," ","D","S","S","h","a","d","o","w","\n">>,
                              <<" "," "," "," ","f","u","n","c"," ","b","o","d","y","(","c","o","n","t","e","n","t",":"," ","C","o","n","t","e","n","t",")"," ","-",">"," ","s","o","m","e"," ","V","i","e","w"," ","{">>,
                              <<" "," "," "," "," "," "," "," ","c","o","n","t","e","n","t",".","s","h","a","d","o","w","(","c","o","l","o","r",":"," ","s","h","a","d","o","w",".","c","o","l","o","r",","," ","r","a","d","i","u","s",":"," ","s","h","a","d","o","w",".","r","a","d","i","u","s",","," ","x",":"," ","s","h","a","d","o","w",".","x",","," ","y",":"," ","s","h","a","d","o","w",".","y",")">>,
                              <<" "," "," "," ","}">>,
                              <<"}","\n">>,
                              <<"e","x","t","e","n","s","i","o","n"," ","V","i","e","w"," ","{">>,
                              <<" "," "," "," ","f","u","n","c"," ","d","s","S","h","a","d","o","w","(","_"," ","s","h","a","d","o","w",":"," ","D","S","S","h","a","d","o","w",")"," ","-",">"," ","s","o","m","e"," ","V","i","e","w"," ","{">>,
                              <<" "," "," "," "," "," "," "," ","m","o","d","i","f","i","e","r","(","D","S","S","h","a","d","o","w","M","o","d","i","f","i","e","r","(","s","h","a","d","o","w",":"," ","s","h","a","d","o","w",")",")">>,
                              <<" "," "," "," ","}">>,
                              <<"}">>,
                              <<>>>>, <<"\n">>)))))

generate_uikit(d, today) ==
    Then(swift_header_comment(Meta(d), <<"U","I","K","i","t">>, today), LAMBDA header :
    Then(SwiftTokens(d), LAMBDA tk :
                 Ok(Join(<<header, <<"i","m","p","o","r","t"," ","U","I","K","i","t","\n">>, <<"/","/"," ","M","A","R","K",":"," ","-"," ","U","I","C","o","l","o","r"," ","H","e","x"," ","E","x","t","e","n","s","i","o","n","\n">>,
                           <<"e","x","t","e","n","s","i","o","n"," ","U","I","C","o","l","o","r"," ","{">>,
                           <<" "," "," "," ","c","o","n","v","e","n","i","e","n","c","e"," ","i","n","i","t","(","h","e","x",":"," ","S","t","r","i","n","g",")"," ","{">>,
                           <<" "," "," "," "," "," "," "," ","l","e","t"," ","h","e","x"," ","="," ","h","e","x",".","t","r","i","m","m","i","n","g","C","h","a","r","a","c","t","e","r","s","(","i","n",":"," ","C","h","a","r","a","c","t","e","r","S","e","t",".","a","l","p","h","a","n","u","m","e","r","i","c","s",".","i","n","v","e","r","t","e","d",")">>,
                           <<" "," "," "," "," "," "," "," ","v","a","r"," ","i","n","t",":"," ","U","I","n","t","6","4"," ","="," ","0">>,
                           <<" "," "," "," "," "," "," "," ","S","c","a","n","n","e","r","(","s","t","r","i","n","g",":"," ","h","e","x",")",".","s","c","a","n","H","e","x","I","n","t","6","4","(","&","i","n","t",")">>,
                           <<" "," "," "," "," "," "," "," ","l","e","t"," ","r"," ","="," ","C","G","F","l","o","a","t","(","(","i","n","t"," ",">",">"," ","1","6",")"," ","&"," ","0","x","F","F",")"," ","/"," ","2","5","5",".","0">>,
                           <<" "," "," "," "," "," "," "," ","l","e","t"," ","g"," ","="," ","C","G","F","l","o","a","t","(","(","i","n","t"," ",">",">"," ","8",")"," ","&"," ","0","x","F","F",")"," ","/"," ","2","5","5",".","0">>,
                           <<" "," "," "," "," "," "," "," ","l","e","t"," ","b"," ","="," ","C","G","F","l","o","a","t","(","i","n","t"," ","&"," ","0","x","F","F",")"," ","/"," ","2","5","5",".","0">>,
                           <<" "," "," "," "," "," "," "," ","s","e","l","f",".","i","n","i","t","(","r","e","d",":"," ","r",","," ","g","r","e","e","n",":"," ","g",","," ","b","l","u","e",":"," ","b",","," ","a","l","p","h","a",":"," ","1",".","0",")">>,
                           <<" "," "," "," ","}">>,
                           <<"}","\n">>,
                           <<"/","/"," ","M","A","R","K",":"," ","-"," ","T","h","e","m","e","\n">>, <<"e","n","u","m"," ","T","h","e","m","e"," ","{","\n">>, <<" "," "," "," ","/","/"," ","M","A","R","K",":"," ","C","o","l","o","r","s","\n">>, <<" "," "," "," ","e","n","u","m"," ","C","o","l","o","r","s"," ","{">>>>
                         \o [i \in 1..Len(tk.colors) |->
                               <<" "," "," "," "," "," "," "," ","s","t","a","t","i","c"," ","l","e","t"," ">> \o tk.colors[i].k \o <<" ","="," ","U","I","C","o","l","o","r","(","h","e","x",":"," ","\"">> \o PyStr(tk.colors[i].v) \o <<"\"",")">>]
                         \o <<<<" "," "," "," ","}","\n">>, <<" "," "," "," ","/","/"," ","M","A","R","K",":"," ","F","o","n","t","s","\n">>, <<" "," "," "," ","e","n","u","m"," ","F","o","n","t","s"," ","{">>>>
                         \o FontConstants(tk, <<" "," "," "," "," "," "," "," ">>, <<"s","i","z","e">>, <<"w","e","i","g","h","t">>, <<"U","I","F","o","n","t",".","W","e","i","g","h","t">>)
                         \o Flatten([i \in 1..Len(tk.families) |->
                               <<<<" "," "," "," "," "," "," "," ","s","t","a","t","i","c"," ","f","u","n","c"," ">> \o tk.families[i].k \o <<"(","_"," ","s","i","z","e",":"," ","C","G","F","l","o","a","t",","," ","w","e","i","g","h","t",":"," ","U","I","F","o","n","t",".","W","e","i","g","h","t"," ","="," ",".","r","e","g","u","l","a","r",")"," ","-",">"," ","U","I","F","o","n","t"," ","{">>,
                                 <<" "," "," "," "," "," "," "," "," "," "," "," ","i","f"," ","l","e","t"," ","f","o","n","t"," ","="," ","U","I","F","o","n","t","(","n","a","m","e",":"," ","\"">> \o tk.families[i].v \o <<"\"",","," ","s","i","z","e",":"," ","s","i","z","e",")"," ","{">>,
                                 <<" "," "," "," "," "," "," "," "," "," "," "," "," "," "," "," ","r","e","t","u","r","n"," ","f","o","n","t">>,
                                 <<" "," "," "," "," "," "," "," "," "," "," "," ","}">>,
                                 <<" "," "," "," "," "," "," "," "," "," "," "," ","r","e","t","u","r","n"," ","U","I","F","o","n","t",".","s","y","s","t","e","m","F","o","n","t","(","o","f","S","i","z","e",":"," ","s","i","z","e",","," ","w","e","i","g","h","t",":"," ","w","e","i","g","h","t",")">>,
                                 <<" "," "," "," "," "," "," "," ","}">>>>])
                         \o <<<<" "," "," "," ","}","\n">>>>
                         \o RegistrationLines(tk, <<" "," "," "," ">>, <<"/","/"," ","M","A","R","K",":"," ","F","o","n","t"," ","R","e","g","i","s","t","r","a","t","i","o","n","\n">>)
                         \o <<<<" "," "," "," ","/","/"," ","M","A","R","K",":"," ","S","p","a","c","i","n","g","\n">>, <<" "," "," "," ","e","n","u","m"," ","S","p","a","c","i","n","g"," ","{">>>>
                         \o CGFloats(tk.spacings, <<" "," "," "," "," "," "," "," ">>)
                         \o <<<<" "," "," "," ","}","\n">>, <<" "," "," "," ","/","/"," ","M","A","R","K",":"," ","R","a","d","i","u","s","\n">>, <<" "," "," "," ","e","n","u","m"," ","R","a","d","i","u","s"," ","{">>>>
                         \o CGFloats(tk.radii, <<" "," "," "," "," "," "," "," ">>)
                         \o <<<<" "," "," "," ","}">>, <<"}">>, <<>>>>, <<"\n">>))))

(***************************************************************************)
(* Documents                                                               *)
(***************************************************************************)
\* a token object {"value": value, "type": type}
Tok(value, type) == JDict(<<Mem(<<"v","a","l","u","e">>, JStr(value)), Mem(<<"t","y","p","e">>, JStr(type))>>)

GoodMeta == JDict(<<Mem(<<"n","a","m","e">>, JStr(<<"A","c","m","e">>)), Mem(<<"s","o","u","r","c","e">>, JStr(<<"w","e","b">>)), Mem(<<"v","e","r","s","i","o","n">>, JStr(<<"1",".","0",".","0">>)), Mem(<<"g","e","n","e","r","a","t","e","d">>, JStr(<<"2","0","2","4">>))>>)

ColorA == Mem(<<"a">>, Tok(<<"#","F","F","0","0","0","0">>, <<"c","o","l","o","r">>))

ColorB == Mem(<<"b">>, Tok(<<"#","1","a","2","b","3","c">>, <<"c","o","l","o","r">>))

FontSizeLg == Mem(<<"f","o","n","t","-","s","i","z","e">>, JDict(<<Mem(<<"l","g">>, Tok(<<"2","4","p","x">>, <<"d","i","m","e","n","s","i","o","n">>))>>))

FontBody == Mem(<<"f","o","n","t","-","f","a","m","i","l","y","-","b","o","d","y">>, Tok(<<"I","n","t","e","r",","," ","s","a","n","s","-","s","e","r","i","f">>, <<"f","o","n","t","F","a","m","i","l","y">>))

Space4 == Mem(<<"4">>, Tok(<<"1","6","p","x">>, <<"d","i","m","e","n","s","i","o","n">>))

RadiusFull == Mem(<<"f","u","l","l">>, Tok(<<"9","9","9","9","p","x">>, <<"d","i","m","e","n","s","i","o","n">>))

ShadowSm == Mem(<<"s","m">>, Tok(<<"0"," ","1"," ","2","p","x"," ","r","g","b","a","(","0",",","0",",","0",",","0",".","1",")">>, <<"s","h","a","d","o","w">>))

\* a document with the six required sections
Doc(colors, typo, spacing, radii, shadows) ==
    JDict(<<Mem(<<"m","e","t","a">>, GoodMeta), Mem(<<"c","o","l","o","r">>, JDict(colors)), Mem(<<"t","y","p","o","g","r","a","p","h","y">>, JDict(typo)),
            Mem(<<"s","p","a","c","i","n","g">>, JDict(spacing)), Mem(<<"b","o","r","d","e","r","R","a","d","i","u","s">>, JDict(radii)), Mem(<<"s","h","a","d","o","w">>, JDict(shadows))>>)

(***************************************************************************)
(* The documents a run or a call is given: the document with the first     *)
(* variant of every section, and those with the sections of at most        *)
(* MaxFaults of its sections replaced by another variant                   *)
(***************************************************************************)
MaxFaults == 3

Obj1(key, val) == JDict(<<Mem(key, val)>>)

Absent == <<>>

MetaVariants ==
    << <<Mem(<<"m","e","t","a">>, GoodMeta)>>,
       Absent,
       <<Mem(<<"m","e","t","a">>, Obj1(<<"n","a","m","e">>, JStr(<<"A","c","m","e">>)))>>,
       <<Mem(<<"m","e","t","a">>, JInt(5))>>,
       <<Mem(<<"m","e","t","a">>, JStr(<<"n","a","m","e"," ","s","o","u","r","c","e"," ","v","e","r","s","i","o","n"," ","g","e","n","e","r","a","t","e","d">>))>>,
       <<Mem(<<"m","e","t","a">>, JList(<<JStr(<<"n","a","m","e">>)>>))>> >>

ColorVariants ==
    << <<Mem(<<"c","o","l","o","r">>, JDict(<<ColorA, ColorB>>))>>,
       Absent,
       <<Mem(<<"c","o","l","o","r">>, JList(<<>>))>>,
       <<Mem(<<"c","o","l","o","r">>, JDict(<<Mem(<<"a">>, Tok(<<"#","F","F","F">>, <<"c","o","l","o","r">>)), ColorB>>))>>,
       <<Mem(<<"c","o","l","o","r">>, JDict(<<Mem(<<"a">>, JDict(<<Mem(<<"v","a","l","u","e">>, JInt(5)), Mem(<<"t","y","p","e">>, JStr(<<"c","o","l","o","r">>))>>))>>))>>,
       <<Mem(<<"c","o","l","o","r">>, JDict(<<Mem(<<"a">>, Obj1(<<"t","y","p","e">>, JStr(<<"c","o","l","o","r">>)))>>))>>,
       <<Mem(<<"c","o","l","o","r">>, JDict(<<Mem(<<"a">>, JDict(<<Mem(<<"v","a","l","u","e">>, JStr(<<"r","e","d">>)), Mem(<<"t","y","p","e">>, JInt(1))>>))>>))>>,
       <<Mem(<<"c","o","l","o","r">>, JDict(<<Mem(<<"a">>, JStr(<<"#","F","F","0","0","0","0">>))>>))>>,
       <<Mem(<<"c","o","l","o","r">>, JDict(<<ColorA, Mem(<<"m","e","t","a">>, Tok(<<"#","0","0","F","F","0","0">>, <<"c","o","l","o","r">>))>>))>>,
       <<Mem(<<"c","o","l","o","r">>, JDict(<<Mem(<<"a">>, Tok(<<"#","F","F","0","0","0","0","\n">>, <<"c","o","l","o","r">>))>>))>> >>

FontWeight(val) == Mem(<<"f","o","n","t","-","w","e","i","g","h","t">>, Obj1(<<"b","o","l","d">>, JDict(<<Mem(<<"v","a","l","u","e">>, val), Mem(<<"t","y","p","e">>, JStr(<<"f","o","n","t","W","e","i","g","h","t">>))>>)))

TypographyVariants ==
    << <<Mem(<<"t","y","p","o","g","r","a","p","h","y">>, JDict(<<FontBody, FontSizeLg, FontWeight(JStr(<<"7","0","0">>))>>))>>,
       Absent,
       <<Mem(<<"t","y","p","o","g","r","a","p","h","y">>, JDict(<<>>))>>,
       <<Mem(<<"t","y","p","o","g","r","a","p","h","y">>, JList(<<JStr(<<"f","o","n","t","-","s","i","z","e">>)>>))>>,
       <<Mem(<<"t","y","p","o","g","r","a","p","h","y">>, Obj1(<<"f","o","n","t","-","s","i","z","e">>, Obj1(<<"l","g">>, Tok(<<"1",".","5","e","m">>, <<"d","i","m","e","n","s","i","o","n">>))))>>,
       <<Mem(<<"t","y","p","o","g","r","a","p","h","y">>, Obj1(<<"f","o","n","t","-","s","i","z","e">>, JInt(16)))>>,
       <<Mem(<<"t","y","p","o","g","r","a","p","h","y">>, JDict(<<FontSizeLg, FontWeight(JStr(<<"b","o","l","d">>))>>))>>,
       <<Mem(<<"t","y","p","o","g","r","a","p","h","y">>, JDict(<<FontSizeLg, FontWeight(JInt(450))>>))>>,
       <<Mem(<<"t","y","p","o","g","r","a","p","h","y">>, JDict(<<FontSizeLg, FontWeight(JNull)>>))>>,
       <<Mem(<<"t","y","p","o","g","r","a","p","h","y">>, Obj1(<<"f","o","n","t","-","s","i","z","e">>, Obj1(<<"l","g">>, JDict(<<Mem(<<"v","a","l","u","e">>, JInt(24)), Mem(<<"t","y","p","e">>, JStr(<<"d","i","m","e","n","s","i","o","n">>))>>))))>> >>

SpacingVariants ==
    << <<Mem(<<"s","p","a","c","i","n","g">>, JDict(<<Space4>>))>>,
       Absent,
       <<Mem(<<"s","p","a","c","i","n","g">>, JDict(<<Mem(<<>>, Tok(<<"8","p","x">>, <<"d","i","m","e","n","s","i","o","n">>))>>))>>,
       <<Mem(<<"s","p","a","c","i","n","g">>, JDict(<<Mem(<<"4">>, Tok(<<"1","6">>, <<"d","i","m","e","n","s","i","o","n">>))>>))>>,
       <<Mem(<<"s","p","a","c","i","n","g">>, JNull)>>,
       <<Mem(<<"s","p","a","c","i","n","g">>, JDict(<<Mem(<<"4">>, JDict(<<Mem(<<"v","a","l","u","e">>, JInt(16)), Mem(<<"t","y","p","e">>, JStr(<<"d","i","m","e","n","s","i","o","n">>))>>))>>))>> >>

RadiusVariants ==
    << <<Mem(<<"b","o","r","d","e","r","R","a","d","i","u","s">>, JDict(<<RadiusFull>>))>>,
       Absent,
       <<Mem(<<"b","o","r","d","e","r","R","a","d","i","u","s">>, JDict(<<Mem(<<"f","u","l","l">>, Tok(<<"5","0","%">>, <<"d","i","m","e","n","s","i","o","n">>))>>))>>,
       <<Mem(<<"b","o","r","d","e","r","R","a","d","i","u","s">>, JStr(<<"9","9","9","9","p","x">>))>> >>

ShadowVariants ==
    << <<Mem(<<"s","h","a","d","o","w">>, JDict(<<ShadowSm>>))>>,
       Absent,
       <<Mem(<<"s","h","a","d","o","w">>, JDict(<<Mem(<<"s","m">>, Tok(<<"n","o","n","e">>, <<"c","o","l","o","r">>))>>))>>,
       <<Mem(<<"s","h","a","d","o","w">>, JInt(0))>>,
       <<Mem(<<"s","h","a","d","o","w">>, JDict(<<Mem(<<"s","m">>, JStr(<<"n","o","n","e">>))>>))>>,
       <<Mem(<<"s","h","a","d","o","w">>, JDict(<<>>))>> >>

Button(val) == Mem(<<"c","o","m","p","o","n","e","n","t","s">>, Obj1(<<"b","u","t","t","o","n">>, Obj1(<<"b","a","c","k","g","r","o","u","n","d">>, val)))

ComponentsVariants ==
    << <<Button(JStr(<<"{","c","o","l","o","r",".","a","}">>))>>,
       Absent,
       <<Button(JStr(<<"{","c","o","l","o","r",".","z","z","}">>))>>,
       <<Button(JStr(<<"{","c","o","l","o","r",".","m","e","t","a","}">>))>>,
       <<Mem(<<"c","o","m","p","o","n","e","n","t","s">>, Obj1(<<"b","u","t","t","o","n">>, JStr(<<"{","c","o","l","o","r",".","z","z","}">>)))>>,
       <<Mem(<<"c","o","m","p","o","n","e","n","t","s">>, JInt(5))>>,
       <<Button(JInt(5))>>,
       <<Button(JStr(<<"1","p","x"," ","s","o","l","i","d"," ","{","c","o","l","o","r",".","z","z","}"," ","{","c","o","l","o","r",".","a","}","{","s","p","a","c","i","n","g",".","4","}">>))>> >>

Variants == <<MetaVariants, ColorVariants, TypographyVariants, SpacingVariants, RadiusVariants, ShadowVariants, ComponentsVariants>>

\* the most variants a section has
MostVariants ==
    Len(Variants[CHOOSE x \in 1..Len(Variants) : \A y \in 1..Len(Variants) : Len(Variants[y]) <= Len(Variants[x])])

\* the choices of a variant for the sections of a set
Choices(F) == {c \in [F -> 2..MostVariants] : \A x \in F : c[x] <= Len(Variants[x])}

Pick(c, x) == IF x \in DOMAIN c THEN Variants[x][c[x]] ELSE Variants[x][1]

DocOf(c) == JDict(Pick(c, 1) \o Pick(c, 2) \o Pick(c, 3) \o Pick(c, 4) \o Pick(c, 5) \o Pick(c, 6) \o Pick(c, 7))

Documents(n) == {DocOf(c) : c \in UNION {Choices(F) : F \in {G \in SUBSET (1..Len(Variants)) : Cardinality(G) <= n}}}

(***************************************************************************)
(* Calls of validate and _collect_token_paths                              *)
(***************************************************************************)
InitValidate ==
    /\ fn \in {"validate", "collect_token_paths"}
    /\ arg \in {[data |-> d] : d \in Documents(MaxFaults)}
    /\ ret = NoRet
    /\ IdleRun

CallValidate ==
    /\ fn = "validate" /\ ~ret.done
    /\ ret' = [done |-> TRUE, val |-> validate(arg.data)]
    /\ UNCHANGED <<fn, arg, runVars>>

CallCollectTokenPaths ==
    /\ fn = "collect_token_paths" /\ ~ret.done
    /\ ret' = [done |-> TRUE, val |-> collect_token_paths(arg.data, <<>>)]
    /\ UNCHANGED <<fn, arg, runVars>>

NextValidate == CallValidate \/ CallCollectTokenPaths

SpecValidate == InitValidate /\ [][NextValidate]_vars

(***************************************************************************)
(* Calls of build_token_map and resolve_token_ref                          *)
(***************************************************************************)
MaxPieces == 4

ResolveDocs ==
    { Doc(<<ColorA, ColorB>>, <<FontSizeLg, FontBody>>, <<Space4>>, <<RadiusFull>>, <<ShadowSm>>),
      Doc(<<ColorA>>, <<>>, <<Space4>>, <<>>, <<>>),
      Doc(<<>>, <<FontSizeLg>>, <<>>, <<>>, <<>>) }

\* the text a component property value is put together from
RefPieces == {<<"{","c","o","l","o","r",".","a","}">>, <<"{","c","o","l","o","r",".","b","}">>, <<"{","t","y","p","o","g","r","a","p","h","y",".","f","o","n","t","-","s","i","z","e",".","l","g","}">>, <<"{">>, <<"}">>, <<" ">>, <<"x">>}

RefValues == {Flatten(ps) : ps \in UNION {[1..n -> RefPieces] : n \in 0..MaxPieces}}

InitResolve ==
    /\ fn \in {"build_token_map", "resolve_token_ref"}
    /\ arg \in {[data |-> d, value |-> v] : d \in ResolveDocs, v \in RefValues}
    /\ fn = "build_token_map" => arg.value = <<>>
    /\ ret = NoRet
    /\ IdleRun

CallBuildTokenMap ==
    /\ fn = "build_token_map" /\ ~ret.done
    /\ ret' = [done |-> TRUE, val |-> build_token_map(arg.data)]
    /\ UNCHANGED <<fn, arg, runVars>>

\* main: token_map = build_token_map(data), then resolve_token_ref(value,
\* token_map) for a property value of a component
CallResolveTokenRef ==
    /\ fn = "resolve_token_ref" /\ ~ret.done
    /\ ret' = [done |-> TRUE, val |-> resolve_token_ref(arg.value, build_token_map(arg.data).val)]
    /\ UNCHANGED <<fn, arg, runVars>>

NextResolve == CallBuildTokenMap \/ CallResolveTokenRef

SpecResolve == InitResolve /\ [][NextResolve]_vars

(***************************************************************************)
(* Properties of the reference resolution                                  *)
(***************************************************************************)
\* the tokens of a document's five sections: [path, ref], ref the variable
\* reference of the token's section, key and subkey
FlatTokens(d, section) ==
    IF ~HasKey(d, section) THEN {}
    ELSE LET ms == GetKey(d, section).v
         IN  {[path |-> section \o <<".">> \o ms[i].k, ref |-> <<"v","a","r","(">> \o build_css_variable_name(section, ms[i].k, <<>>) \o <<")">>] :
                 i \in {h \in 1..Len(ms) : IsDict(ms[h].v) /\ HasKey(ms[h].v, <<"v","a","l","u","e">>) /\ HasKey(ms[h].v, <<"t","y","p","e">>)}}

TypographyTokens(d) ==
    IF ~HasKey(d, <<"t","y","p","o","g","r","a","p","h","y">>) THEN {}
    ELSE LET ms == GetKey(d, <<"t","y","p","o","g","r","a","p","h","y">>).v
             IsTok(j) == IsDict(j) /\ HasKey(j, <<"v","a","l","u","e">>) /\ HasKey(j, <<"t","y","p","e">>)
         IN  {[path |-> <<"t","y","p","o","g","r","a","p","h","y",".">> \o ms[i].k, ref |-> <<"v","a","r","(">> \o build_css_variable_name(<<"t","y","p","o","g","r","a","p","h","y">>, ms[i].k, <<>>) \o <<")">>] :
                 i \in {h \in 1..Len(ms) : IsTok(ms[h].v)}}
             \cup UNION {{[path |-> <<"t","y","p","o","g","r","a","p","h","y",".">> \o ms[i].k \o <<".">> \o ms[i].v.v[g].k,
                           ref |-> <<"v","a","r","(">> \o build_css_variable_name(<<"t","y","p","o","g","r","a","p","h","y">>, ms[i].k, ms[i].v.v[g].k) \o <<")">>] :
                              g \in {h \in 1..Len(ms[i].v.v) : IsTok(ms[i].v.v[h].v)}} :
                         i \in {h \in 1..Len(ms) : IsDict(ms[h].v) /\ ~IsTok(ms[h].v)}}

DocTokens(d) == FlatTokens(d, <<"c","o","l","o","r">>) \cup FlatTokens(d, <<"s","p","a","c","i","n","g">>) \cup FlatTokens(d, <<"b","o","r","d","e","r","R","a","d","i","u","s">>) \cup FlatTokens(d, <<"s","h","a","d","o","w">>) \cup TypographyTokens(d)

\* the tokens whose reference "{path}" occurs in v at position i
TokensAt(v, i, toks) == {tk \in toks : i + Len(tk.path) + 1 <= Len(v) /\ SubSeq(v, i, i + Len(tk.path) + 1) = <<"{">> \o tk.path \o <<"}">>}

RECURSIVE ReplaceRefs(_, _, _)
\* v from position i on, every occurrence of a token's "{path}" replaced by
\* the token's variable reference and all other text kept
ReplaceRefs(v, i, toks) ==
    IF i > Len(v) THEN <<>>
    ELSE IF TokensAt(v, i, toks) = {} THEN <<v[i]>> \o ReplaceRefs(v, i + 1, toks)
    ELSE LET tk == CHOOSE x \in TokensAt(v, i, toks) : TRUE
         IN  tk.ref \o ReplaceRefs(v, i + Len(tk.path) + 2, toks)

\* C6: every occurrence of "{P}", P the path of a token of the document, is
\* replaced by var(<the token's variable name>) and the text around the
\* references is kept
C6_EveryReferenceResolved ==
    (ret.done /\ fn = "resolve_token_ref") => ret.val = ReplaceRefs(arg.value, 1, DocTokens(arg.data))

\* a "{path}" span of v: braces at i and j and a non-empty path without braces
RefSpan(v, i, j) == v[i] = "{" /\ v[j] = "}" /\ j > i + 1 /\ \A h \in (i + 1)..(j - 1) : v[h] \notin {"{", "}"}

\* position of the last "}" before i, or 0
LastClose(v, i) == IF \E h \in 1..(i - 1) : v[h] = "}" THEN CHOOSE h \in 1..(i - 1) : v[h] = "}" /\ \A g \in (h + 1)..(i - 1) : v[g] # "}" ELSE 0

\* a reference of v as the pattern finds it from left to right: "{" at i not
\* preceded, since the last "}", by another "{", and j the next "}", with a
\* non-empty path between them
MatchSpan(v, i, j) ==
    /\ v[i] = "{" /\ v[j] = "}" /\ j > i + 1
    /\ \A h \in (i + 1)..(j - 1) : v[h] # "}"
    /\ \A h \in (LastClose(v, i) + 1)..(i - 1) : v[h] # "{"

\* the references the scan replaces: those whose path is in the map
ReplacedSpans(v, m) ==
    {sp \in (1..Len(v)) \X (1..Len(v)) : MatchSpan(v, sp[1], sp[2]) /\ SubSeq(v, sp[1] + 1, sp[2] - 1) \in DOMAIN m}

RECURSIVE GrowthOf(_, _, _)
\* by how much the replaced spans of a set lengthen the text
GrowthOf(v, m, sps) ==
    IF sps = {} THEN 0
    ELSE LET sp == CHOOSE x \in sps : TRUE
         IN  Len(m[SubSeq(v, sp[1] + 1, sp[2] - 1)]) - (sp[2] - sp[1] + 1) + GrowthOf(v, m, sps \ {sp})

\* C7: a "{path}" span whose path is not a key of the token map is in the
\* output as it was, braces and text, displaced only by the growth of the
\* references replaced before it; the output is the input plus that growth
C7_UnresolvedLeftAsIs ==
    (ret.done /\ fn = "resolve_token_ref") =>
        LET v == arg.value
            m == build_token_map(arg.data).val
            shift(i) == GrowthOf(v, m, {sp \in ReplacedSpans(v, m) : sp[2] < i})
        IN  /\ Len(ret.val) = Len(v) + GrowthOf(v, m, ReplacedSpans(v, m))
            /\ \A i, j \in 1..Len(v) :
                 ((RefSpan(v, i, j) \/ MatchSpan(v, i, j)) /\ SubSeq(v, i + 1, j - 1) \notin DOMAIN m) =>
                     SubSeq(ret.val, i + shift(i), j + shift(i)) = SubSeq(v, i, j)

C7_Witness ==
    /\ fn = "resolve_token_ref" /\ ret.done
    /\ <<"c","o","l","o","r",".","b">> \notin DOMAIN build_token_map(arg.data).val
    /\ arg.value = <<"{","c","o","l","o","r",".","a","}"," ","{","c","o","l","o","r",".","b","}">>
    /\ ret.val = <<"v","a","r","(","-","-","c","o","l","o","r","-","a",")"," ","{","c","o","l","o","r",".","b","}">>

(***************************************************************************)
(* Properties of the validator                                             *)
(***************************************************************************)
Range(q) == {q[i] : i \in 1..Len(q)}

ValidateCall == fn = "validate" /\ ret.done

\* the sections a document lacks
MissingSections(d) == {x \in Range(REQUIRED_SECTIONS) : ~HasKey(d, x)}

\* the color tokens with a string value that the hex pattern rejects
BadHexColors(d) ==
    IF ~(HasKey(d, <<"c","o","l","o","r">>) /\ IsDict(GetKey(d, <<"c","o","l","o","r">>))) THEN {}
    ELSE {m \in Range(GetKey(d, <<"c","o","l","o","r">>).v) :
             /\ IsDict(m.v) /\ HasKey(m.v, <<"v","a","l","u","e">>) /\ IsStr(GetKey(m.v, <<"v","a","l","u","e">>))
             /\ ~HEX_RE_match(GetKey(m.v, <<"v","a","l","u","e">>).v)}

\* the string-valued properties of the components: [comp, prop, value]
StringProps(d) ==
    IF ~(HasKey(d, <<"c","o","m","p","o","n","e","n","t","s">>) /\ IsDict(GetKey(d, <<"c","o","m","p","o","n","e","n","t","s">>))) THEN {}
    ELSE UNION {{[comp |-> c.k, prop |-> pr.k, value |-> pr.v.v] : pr \in {x \in Range(c.v.v) : IsStr(x.v)}} :
                   c \in {x \in Range(GetKey(d, <<"c","o","m","p","o","n","e","n","t","s">>).v) : IsDict(x.v)}}

\* the "{path}" spans of a text, path of word characters, dots and hyphens
PathSpans(v) == {SubSeq(v, i, j) : <<i, j>> \in {sp \in (1..Len(v)) \X (1..Len(v)) :
                    /\ v[sp[1]] = "{" /\ v[sp[2]] = "}" /\ sp[2] > sp[1] + 1
                    /\ \A h \in (sp[1] + 1)..(sp[2] - 1) : v[h] \in RefChars}}

PathOf(span) == SubSeq(span, 2, Len(span) - 1)

RefError(pr, span) == <<"c","o","m","p","o","n","e","n","t","s",".">> \o pr.comp \o <<".">> \o pr.prop \o <<":"," ","r","e","f","e","r","e","n","c","e"," ","'">> \o span \o <<"'"," ","n","o","t"," ","f","o","u","n","d"," ","i","n"," ","t","o","k","e","n","s">>

\* C1: whatever else is wrong with the document, the returned list holds an
\* error for every missing section, for every color the hex pattern rejects
\* and for every component reference that is not a collected token path
C1_EveryViolationReported ==
    ValidateCall =>
        LET d == arg.data
            reported == Range(ret.val.val)
        IN  /\ \A x \in MissingSections(d) : <<"M","i","s","s","i","n","g"," ","r","e","q","u","i","r","e","d"," ","s","e","c","t","i","o","n",":"," ","'">> \o x \o <<"'">> \in reported
            /\ \A m \in BadHexColors(d) :
                 <<"c","o","l","o","r",".">> \o m.k \o <<":"," ","v","a","l","u","e"," ","'">> \o GetKey(m.v, <<"v","a","l","u","e">>).v \o <<"'"," ","i","s"," ","n","o","t"," ","a"," ","v","a","l","i","d"," ","6","-","d","i","g","i","t"," ","h","e","x">> \in reported
            /\ \A pr \in StringProps(d) : \A span \in PathSpans(pr.value) :
                 PathOf(span) \notin collect_token_paths(d, <<>>) => RefError(pr, span) \in reported

\* C2: validate returns a list of errors for every document that is a JSON
\* object; it raises for none
C2_ValidateNeverRaises == ValidateCall => ~ret.val.raised

RECURSIVE ObjectPaths(_, _)
\* the dotted paths of the objects with a 'value' and a 'type' key in j, an
\* object at path
ObjectPaths(j, path) ==
    IF ~IsDict(j) THEN {}
    ELSE IF HasKey(j, <<"v","a","l","u","e">>) /\ HasKey(j, <<"t","y","p","e">>) THEN {path}
    ELSE UNION {ObjectPaths(m.v, path \o <<".">> \o m.k) : m \in Range(j.v)}

\* the token paths of a document: under every top-level key but 'meta' and
\* 'components'
TokenPathsOf(d) == UNION {ObjectPaths(m.v, m.k) : m \in {x \in Range(d.v) : x.k \notin {<<"m","e","t","a">>, <<"c","o","m","p","o","n","e","n","t","s">>}}}

\* C5: the collected set is the set of the token paths of the document, and
\* a reference of a component property is reported exactly when its path is
\* not one of them
C5_ReferencesAgainstTokenPaths ==
    /\ (fn = "collect_token_paths" /\ ret.done) => ret.val = TokenPathsOf(arg.data)
    /\ (ValidateCall /\ ~ret.val.raised) =>
          \A pr \in StringProps(arg.data) : \A span \in PathSpans(pr.value) :
              (RefError(pr, span) \in Range(ret.val.val)) <=> (PathOf(span) \notin TokenPathsOf(arg.data))

\* how many times a list of errors holds an error
ErrorCount(errs, e) == Cardinality({i \in 1..Len(errs) : errs[i] = e})

\* C11: the list validate returns holds the error of a missing section
\* once for each required section the document lacks and not at all for
\* each it has, whatever the rest of the document is
C11_MissingSectionReported ==
    ValidateCall =>
        \A x \in Range(REQUIRED_SECTIONS) :
            ErrorCount(ret.val.val, <<"M","i","s","s","i","n","g"," ","r","e","q","u","i","r","e","d"," ","s","e","c","t","i","o","n",":"," ","'">> \o x \o <<"'">>) = IF HasKey(arg.data, x) THEN 0 ELSE 1

(***************************************************************************)
(* Calls of the generation functions                                       *)
(***************************************************************************)
MaxGenFaults == 2

\* date.today().isoformat() at the time of the call
Dates == {<<"2","0","2","4","-","0","1","-","0","1">>}

GenerateFns ==
    {"generate_css", "generate_scss", "generate_component_classes",
     "generate_compose_color", "generate_compose_type", "generate_compose_shape", "generate_compose_theme",
     "generate_compose_dimens", "generate_xml_colors", "generate_xml_dimens", "generate_xml_styles",
     "generate_xml_themes", "generate_swiftui", "generate_uikit"}

InitGenerate ==
    /\ fn \in GenerateFns \cup {"validate"}
    /\ arg \in {[data |-> d, format |-> f, today |-> t] : d \in Documents(MaxGenFaults), f \in {"css", "scss"}, t \in Dates}
    /\ fn # "generate_component_classes" => arg.format = "css"
    /\ ret = NoRet
    /\ IdleRun

\* fn(data) returns or raises after it has popped 'components' from data
Returns_popping_components(name, result) ==
    /\ fn = name /\ ~ret.done
    /\ ret' = [done |-> TRUE, val |-> result]
    /\ arg' = [arg EXCEPT !.data = IF IsDict(@) THEN JDict(SelectSeq(@.v, LAMBDA m : m.k # <<"c","o","m","p","o","n","e","n","t","s">>)) ELSE @]
    /\ UNCHANGED <<fn, runVars>>

\* fn(data) returns or raises
Returns(name, result) ==
    /\ fn = name /\ ~ret.done
    /\ ret' = [done |-> TRUE, val |-> result]
    /\ UNCHANGED <<fn, arg, runVars>>

CallGenerateCss == Returns("generate_css", generate_css(arg.data, arg.today))

CallGenerateScss == Returns("generate_scss", generate_scss(arg.data, arg.today))

\* main: token_map = build_token_map(data), then
\* generate_component_classes(data, token_map, args.format)
CallGenerateComponentClasses ==
    /\ ~build_token_map(arg.data).raised
    /\ Returns("generate_component_classes", generate_component_classes(arg.data, build_token_map(arg.data).val, arg.format))

CallGenerateComposeColor == Returns("generate_compose_color", generate_compose_color(arg.data, arg.today))

CallGenerateComposeType == Returns("generate_compose_type", generate_compose_type(arg.data, arg.today))

CallGenerateComposeShape == Returns("generate_compose_shape", generate_compose_shape(arg.data, arg.today))

CallGenerateComposeTheme == Returns("generate_compose_theme", generate_compose_theme(arg.data, arg.today))

CallGenerateComposeDimens == Returns("generate_compose_dimens", generate_compose_dimens(arg.data, arg.today))

CallGenerateXmlColors == Returns("generate_xml_colors", generate_xml_colors(arg.data, arg.today))

CallGenerateXmlDimens == Returns("generate_xml_dimens", generate_xml_dimens(arg.data, arg.today))

CallGenerateXmlStyles == Returns("generate_xml_styles", generate_xml_styles(arg.data, arg.today))

CallGenerateXmlThemes == Returns("generate_xml_themes", generate_xml_themes(arg.data, arg.today))

CallGenerateSwiftui == Returns("generate_swiftui", generate_swiftui(arg.data, arg.today))

CallGenerateUikit == Returns("generate_uikit", generate_uikit(arg.data, arg.today))

NextGenerate ==
    \/ CallValidate
    \/ CallGenerateCss
    \/ CallGenerateScss
    \/ CallGenerateComponentClasses
    \/ CallGenerateComposeColor
    \/ CallGenerateComposeType
    \/ CallGenerateComposeShape
    \/ CallGenerateComposeTheme
    \/ CallGenerateComposeDimens
    \/ CallGenerateXmlColors
    \/ CallGenerateXmlDimens
    \/ CallGenerateXmlStyles
    \/ CallGenerateXmlThemes
    \/ CallGenerateSwiftui
    \/ CallGenerateUikit

SpecGenerate == InitGenerate /\ [][NextGenerate]_vars

(***************************************************************************)
(* Properties of the generation functions                                  *)
(***************************************************************************)
\* '#' and six hexadecimal digits
SixDigitHex(s) == Len(s) = HexDigits + 1 /\ s[1] = "#" /\ \A i \in 2..Len(s) : s[i] \in HexChars

\* 'none', or three or four numbers and an rgba color
ShadowText(s) == s = <<"n","o","n","e">> \/ AEnd(s, 1) # 0

AnyText(s) == TRUE

\* an object with a 'type' and a string 'value' of a grammar
TypedToken(j, Grammar(_)) ==
    /\ IsDict(j) /\ HasKey(j, <<"v","a","l","u","e">>) /\ HasKey(j, <<"t","y","p","e">>)
    /\ IsStr(GetKey(j, <<"v","a","l","u","e">>)) /\ Grammar(GetKey(j, <<"v","a","l","u","e">>).v)

TypedTokens(g, type, Grammar(_)) ==
    IsDict(g) /\ \A m \in Range(g.v) : TypedToken(m.v, Grammar) /\ GetKey(m.v, <<"t","y","p","e">>) = JStr(type)

\* a weight of 100, 200 .. 900
WeightText(s) == IsDigits(s) /\ NatOf(s) \in {MinWeight + WeightStep * k : k \in 0..((MaxWeight - MinWeight) \div WeightStep)}

ValidTypography(t) ==
    IsDict(t) /\ \A m \in Range(t.v) :
        CASE m.k = <<"f","o","n","t","-","s","i","z","e">> -> TypedTokens(m.v, <<"d","i","m","e","n","s","i","o","n">>, StrictPx)
          [] m.k = <<"f","o","n","t","-","w","e","i","g","h","t">> -> TypedTokens(m.v, <<"f","o","n","t","W","e","i","g","h","t">>, WeightText)
          [] OTHER -> TypedToken(m.v, AnyText) \/ (IsDict(m.v) /\ \A x \in Range(m.v.v) : TypedToken(x.v, AnyText))

ValidComponents(d) ==
    HasKey(d, <<"c","o","m","p","o","n","e","n","t","s">>) =>
        LET components == GetKey(d, <<"c","o","m","p","o","n","e","n","t","s">>)
        IN  /\ IsDict(components)
            /\ \A c \in Range(components.v) : IsDict(c.v) /\ \A pr \in Range(c.v.v) : IsStr(pr.v)
            /\ \A pr \in StringProps(d) : \A span \in PathSpans(pr.value) : PathOf(span) \in TokenPathsOf(d)

\* a valid document: the six sections and the four meta fields, every
\* token an object with a 'value' and a 'type' of its kind's grammar, every
\* reference of a component the path of a token
ValidDocument(d) ==
    /\ IsDict(d)
    /\ \A x \in Range(REQUIRED_SECTIONS) : HasKey(d, x) /\ IsDict(GetKey(d, x))
    /\ \A x \in Range(REQUIRED_META_FIELDS) : HasKey(GetKey(d, <<"m","e","t","a">>), x)
    /\ TypedTokens(GetKey(d, <<"c","o","l","o","r">>), <<"c","o","l","o","r">>, SixDigitHex)
    /\ ValidTypography(GetKey(d, <<"t","y","p","o","g","r","a","p","h","y">>))
    /\ TypedTokens(GetKey(d, <<"s","p","a","c","i","n","g">>), <<"d","i","m","e","n","s","i","o","n">>, StrictPx)
    /\ TypedTokens(GetKey(d, <<"b","o","r","d","e","r","R","a","d","i","u","s">>), <<"d","i","m","e","n","s","i","o","n">>, StrictPx)
    /\ TypedTokens(GetKey(d, <<"s","h","a","d","o","w">>), <<"s","h","a","d","o","w">>, ShadowText)
    /\ ValidComponents(d)

\* C3: for a valid document validate returns the empty list and every
\* generation function returns, none raises
C3_ValidDocumentsEmit ==
    (ret.done /\ ValidDocument(arg.data)) =>
        IF fn = "validate" THEN ret.val = Ok(<<>>) ELSE ~ret.val.raised

\* an object with the six required sections and without font sources,
\* shadow tokens and components
NoOptionalGroups(d) ==
    /\ IsDict(d) /\ \A x \in Range(REQUIRED_SECTIONS) : HasKey(d, x)
    /\ ~(IsDict(GetKey(d, <<"t","y","p","o","g","r","a","p","h","y">>)) /\ HasKey(GetKey(d, <<"t","y","p","o","g","r","a","p","h","y">>), <<"f","o","n","t","-","s","o","u","r","c","e">>))
    /\ GetKey(d, <<"s","h","a","d","o","w">>) = JDict(<<>>)
    /\ ~HasKey(d, <<"c","o","m","p","o","n","e","n","t","s">>)

\* the texts by which the outputs begin the blocks of the optional groups
OptionalBlocks == {<<"@","i","m","p","o","r","t">>, <<"F","o","n","t"," ","R","e","g","i","s","t","r","a","t","i","o","n">>, <<"F","o","n","t"," ","S","o","u","r","c","e","s">>, <<"S","h","a","d","o","w">>, <<"s","h","a","d","o","w">>}

\* C22: for an object with the six required sections and without font
\* sources, shadow tokens and components, every generation function returns
\* without raising, and what it returns has no block of font sources, of
\* shadows or of components
C22_OptionalGroupsOmitted ==
    (fn \in GenerateFns /\ ret.done /\ NoOptionalGroups(arg.data)) =>
        /\ ~ret.val.raised
        /\ \A text \in OptionalBlocks : ~Contains(ret.val.val, text)
        /\ fn = "generate_component_classes" => ret.val.val = <<>>

Places == {"color", "font-size", "font-weight", "spacing", "borderRadius", "shadow"}

\* the path of the token at a place
TokenPath(place) ==
    CASE place = "color" -> <<"c","o","l","o","r",".","a">> [] place = "font-size" -> <<"t","y","p","o","g","r","a","p","h","y",".","f","o","n","t","-","s","i","z","e",".","l","g">>
      [] place = "font-weight" -> <<"t","y","p","o","g","r","a","p","h","y",".","f","o","n","t","-","w","e","i","g","h","t",".","b","o","l","d">> [] place = "spacing" -> <<"s","p","a","c","i","n","g",".","4">>
      [] place = "borderRadius" -> <<"b","o","r","d","e","r","R","a","d","i","u","s",".","f","u","l","l">> [] OTHER -> <<"s","h","a","d","o","w",".","s","m">>

\* the values of a token: texts of every grammar and near it, and values
\* that are no string
TokenTexts ==
    {<<"#","F","F","0","0","0","0">>, <<"#","f","f","0","0","a","a">>, <<"#","F","F","F">>, <<"#","F","F","0","0","0","0","0">>, <<"#","G","G","0","0","0","0">>, <<"F","F","0","0","0","0">>, <<"r","e","d">>, <<"#","F","F","0","0","0","0","\n">>, <<>>,
     <<"1","6","p","x">>, <<"-","1",".","5","p","x">>, <<"0",".","5","p","x">>, <<"1","6">>, <<"1",".","5","e","m">>, <<"1","6","p","x","\n">>, <<"p","x">>, <<"1",".","p","x">>, <<" ","1","6","p","x">>,
     <<"1","0","0">>, <<"9","0","0">>, <<"4","0","0">>, <<"9","5","0">>, <<"0">>, <<"1","0","0","0">>, <<"4","5","0">>, <<"4","0","0",".","5">>, <<"a","b","c">>, <<" ","4","0","0"," ">>, <<"-","4","0","0">>,
     <<"n","o","n","e">>, <<"0"," ","1"," ","2","p","x"," ","r","g","b","a","(","0",",","0",",","0",",","0",".","1",")">>, <<"0"," ","1"," ","2"," ","3","p","x"," ","r","g","b","a","(","0",",","0",",","0",",","0",".","1",")">>, <<"0"," ","1","p","x"," ","2","p","x"," ","r","g","b","a","(","0",",","0",",","0",",","0",".","1",")">>, <<"b","a","n","a","n","a">>}

AnyValues ==
    {JStr(text) : text \in TokenTexts}
    \cup {JInt(400), JInt(100), JInt(900), JInt(950), JInt(0), JInt(16),
          JFloat([neg |-> FALSE, ip |-> 400, fs |-> 5, dn |-> 1]), JFloat([neg |-> FALSE, ip |-> 400, fs |-> 0, dn |-> 1]),
          JBool(TRUE), JNull, JList(<<>>), JDict(<<>>)}

\* the 'type' of a token, absent for <<>>
TokenTypes == {<<>>, <<JStr(<<"c","o","l","o","r">>)>>, <<JStr(<<"d","i","m","e","n","s","i","o","n">>)>>, <<JStr(<<"f","o","n","t","W","e","i","g","h","t">>)>>, <<JStr(<<"s","h","a","d","o","w">>)>>, <<JInt(1)>>}

\* the tokens: objects with a 'value', a 'type', both or none, and values
\* that are no object
Tokens ==
    {JDict(<<Mem(<<"v","a","l","u","e">>, v)>> \o [i \in 1..Len(ty) |-> Mem(<<"t","y","p","e">>, ty[i])]) : v \in AnyValues, ty \in TokenTypes}
    \cup {JDict([i \in 1..Len(ty) |-> Mem(<<"t","y","p","e">>, ty[i])]) : ty \in TokenTypes}
    \cup {JStr(<<"#","F","F","0","0","0","0">>), JStr(<<"1","6","p","x">>), JStr(<<"4","0","0">>), JStr(<<"n","o","n","e">>), JInt(16), JNull, JList(<<>>)}

\* the document with the token at the place
TokenDoc(place, token) ==
    Doc(IF place = "color" THEN <<Mem(<<"a">>, token)>> ELSE <<ColorA>>,
        CASE place = "font-size" -> <<FontBody, Mem(<<"f","o","n","t","-","s","i","z","e">>, Obj1(<<"l","g">>, token))>>
          [] place = "font-weight" -> <<FontBody, FontSizeLg, Mem(<<"f","o","n","t","-","w","e","i","g","h","t">>, Obj1(<<"b","o","l","d">>, token))>>
          [] OTHER -> <<FontBody, FontSizeLg>>,
        IF place = "spacing" THEN <<Mem(<<"4">>, token)>> ELSE <<Space4>>,
        IF place = "borderRadius" THEN <<Mem(<<"f","u","l","l">>, token)>> ELSE <<RadiusFull>>,
        IF place = "shadow" THEN <<Mem(<<"s","m">>, token)>> ELSE <<ShadowSm>>)

InitTokens ==
    /\ fn = "validate"
    /\ arg \in {[data |-> TokenDoc(p, token), place |-> p, token |-> token] : p \in Places, token \in Tokens}
    /\ ret = NoRet
    /\ IdleRun

NextTokens == CallValidate

SpecTokens == InitTokens /\ [][NextTokens]_vars

(***************************************************************************)
(* Properties of the validation of a token                                 *)
(***************************************************************************)
\* validate has been called on the document with the token at the place
TokenCall(place) == fn = "validate" /\ ret.done /\ arg.place = place

\* the token is an object with a 'value'
HasValue == IsDict(arg.token) /\ HasKey(arg.token, <<"v","a","l","u","e">>)

\* the errors of the returned list that name the token
PlaceErrors == SelectSeq(ret.val.val, LAMBDA e : StartsWith(e, TokenPath(arg.place) \o <<":">>))

\* the error of the token with a text
PlaceError(text) == TokenPath(arg.place) \o <<":"," ">> \o text

\* an integer of 100, 200 .. 900: a JSON integer, a JSON number without
\* fraction, or the digits of one in a string
IsWeight(v) ==
    \/ v.t = "int" /\ WeightText(NatStr(IF v.v < 0 THEN 0 ELSE v.v)) /\ v.v > 0
    \/ v.t = "float" /\ ~v.v.neg /\ v.v.fs = 0 /\ WeightText(NatStr(v.v.ip))
    \/ v.t = "str" /\ WeightText(StripChars(v.v, WhiteChars))

\* C12: a font-weight token with a 'value' gets no error exactly when the
\* value is an integer of 100, 200 .. 900; "abc" gets the error 'should be
\* numeric', and 950, 0, 1000 and 450 the error of the range
C12_FontWeightChecked ==
    (TokenCall("font-weight") /\ HasValue) =>
        LET v == GetKey(arg.token, <<"v","a","l","u","e">>)
        IN  /\ (PlaceErrors = <<>>) <=> IsWeight(v)
            /\ v = JStr(<<"a","b","c">>) => PlaceErrors = <<PlaceError(<<"v","a","l","u","e"," ","'","a","b","c","'"," ","s","h","o","u","l","d"," ","b","e"," ","n","u","m","e","r","i","c">>)>>
            /\ (v.t = "str" /\ v.v \in {<<"9","5","0">>, <<"0">>, <<"1","0","0","0">>, <<"4","5","0">>}) =>
                   PlaceErrors = <<PlaceError(<<"v","a","l","u","e"," ","'">> \o v.v \o <<"'"," ","s","h","o","u","l","d"," ","b","e"," ","1","0","0","-","9","0","0"," ","i","n"," ","i","n","c","r","e","m","e","n","t","s"," ","o","f"," ","1","0","0">>)>>

\* after \d+\s+ from p, or 0
NumberSpaceEnd(v, p) == IF p = 0 \/ RunEnd(v, p, DigitChars) = p THEN 0 ELSE SpaceEnd(v, RunEnd(v, p, DigitChars))

\* \d+px\s+rgba\(.+\) from p to the end of v
ColorTail(v, p) ==
    LET d == RunEnd(v, p, DigitChars)
        c == SpaceEnd(v, d + 2)
    IN  /\ p # 0 /\ d > p /\ PxEnd(v, d) = d + 2
        /\ c # 0 /\ c + 4 <= Len(v) /\ SubSeq(v, c, c + 4) = <<"r","g","b","a","(">>
        /\ Len(v) >= c + 6 /\ v[Len(v)] = ")" /\ \A j \in (c + 5)..(Len(v) - 1) : v[j] # NL

\* SHADOW_RE.match(value): ^(\d+\s+){2,3}\d+px\s+rgba\(.+\)$|^none$
SHADOW_RE_match(value) ==
    \E b \in DollarEnds(value) :
        \/ b = <<"n","o","n","e">>
        \/ ColorTail(b, NumberSpaceEnd(b, NumberSpaceEnd(b, 1)))
        \/ ColorTail(b, NumberSpaceEnd(b, NumberSpaceEnd(b, NumberSpaceEnd(b, 1))))

\* the value of the token is a string of the shorthand of the validator or
\* of the shorthand the generators read, or 'none'
ShadowValue == HasValue /\ IsStr(GetKey(arg.token, <<"v","a","l","u","e">>))
    /\ (SHADOW_RE_match(GetKey(arg.token, <<"v","a","l","u","e">>).v) \/ ShadowText(GetKey(arg.token, <<"v","a","l","u","e">>).v))

\* the token has a 'type' that is not 'shadow'
OtherType(name) == HasKey(arg.token, <<"t","y","p","e">>) /\ GetKey(arg.token, <<"t","y","p","e">>) # JStr(name)

\* C13: a shadow token whose value is neither a shorthand nor 'none' gets an
\* error, a shadow token whose 'type' is present and not 'shadow' gets an
\* error, and a token with a conforming value and no other type gets none
C13_ShadowChecked ==
    (TokenCall("shadow") /\ IsDict(arg.token)) =>
        /\ (HasValue /\ ~ShadowValue) => PlaceErrors # <<>>
        /\ OtherType(<<"s","h","a","d","o","w">>) => PlaceErrors # <<>>
        /\ (ShadowValue /\ ~OtherType(<<"s","h","a","d","o","w">>)) => PlaceErrors = <<>>

\* the token has a 'value' that is '#' and six hexadecimal digits
HexValue == HasValue /\ IsStr(GetKey(arg.token, <<"v","a","l","u","e">>)) /\ SixDigitHex(GetKey(arg.token, <<"v","a","l","u","e">>).v)

\* how many of its two checks an object in 'color' fails
ColorFaults == (IF HexValue THEN 0 ELSE 1) + (IF HasKey(arg.token, <<"t","y","p","e">>) /\ ~OtherType(<<"c","o","l","o","r">>) THEN 0 ELSE 1)

\* C14: an entry of 'color' that is not an object gets an error; an object
\* gets one error when it lacks 'value' or its value is not '#' and six
\* hexadecimal digits, and one more when it lacks 'type' or its type is not
\* 'color': two when wrong in both, none when right in both
C14_ColorChecked ==
    TokenCall("color") =>
        IF IsDict(arg.token) THEN Len(PlaceErrors) = ColorFaults ELSE PlaceErrors # <<>>

\* the token has a 'value' that is a number and 'px'
PxValue == HasValue /\ IsStr(GetKey(arg.token, <<"v","a","l","u","e">>)) /\ StrictPx(GetKey(arg.token, <<"v","a","l","u","e">>).v)

\* C15: a token of typography.font-size, spacing or borderRadius gets no
\* error when its value is a number and 'px', and an error that names its
\* path otherwise, also when it is not an object or has no 'value'
C15_DimensionChecked ==
    (\E place \in {"font-size", "spacing", "borderRadius"} : TokenCall(place)) =>
        (PlaceErrors = <<>>) <=> PxValue

(***************************************************************************)
(* Calls of the stylesheet functions on documents whose sections come in   *)
(* any order                                                               *)
(***************************************************************************)
\* the variants of the five sections of tokens
SectionVariants ==
    << <<Absent,
         <<Mem(<<"c","o","l","o","r">>, JDict(<<>>))>>,
         <<Mem(<<"c","o","l","o","r">>, JDict(<<Mem(<<"p","r","i","m","a","r","y">>, Tok(<<"#","F","F","0","0","0","0">>, <<"c","o","l","o","r">>)), ColorB>>))>>,
         <<Mem(<<"c","o","l","o","r">>, JDict(<<Mem(<<"a">>, JStr(<<"#","F","F","0","0","0","0">>))>>))>> >>,
       <<Absent,
         <<Mem(<<"t","y","p","o","g","r","a","p","h","y">>, JDict(<<>>))>>,
         <<Mem(<<"t","y","p","o","g","r","a","p","h","y">>, JDict(<<FontBody, FontSizeLg>>))>>,
         <<Mem(<<"t","y","p","o","g","r","a","p","h","y">>, Obj1(<<"f","o","n","t","-","s","o","u","r","c","e">>, Obj1(<<"b","o","d","y">>, Tok(<<"h","t","t","p","s",":","/","/","f","o","n","t","s",".","e","x","a","m","p","l","e","/","i","n","t","e","r",".","c","s","s">>, <<"f","o","n","t","S","o","u","r","c","e">>))))>> >>,
       <<Absent,
         <<Mem(<<"s","p","a","c","i","n","g">>, JDict(<<Space4>>))>> >>,
       <<Absent,
         <<Mem(<<"b","o","r","d","e","r","R","a","d","i","u","s">>, JDict(<<RadiusFull>>))>> >>,
       <<Absent,
         <<Mem(<<"s","h","a","d","o","w">>, JDict(<<>>))>>,
         <<Mem(<<"s","h","a","d","o","w">>, JDict(<<ShadowSm>>))>> >> >>

\* the orders of the sections in the text of a document
SectionOrders == {<<1, 2, 3, 4, 5>>, <<5, 4, 3, 2, 1>>, <<3, 1, 5, 2, 4>>, <<2, 5, 1, 4, 3>>}

\* the document with the chosen variants in the order
OrderedDoc(c, order) ==
    JDict(<<Mem(<<"m","e","t","a">>, GoodMeta)>> \o Flatten([i \in 1..Len(order) |-> SectionVariants[order[i]][c[order[i]]]]))

OrderedDocs ==
    {OrderedDoc(c, order) : c \in {x \in [1..Len(SectionVariants) -> 1..4] : \A i \in DOMAIN x : x[i] <= Len(SectionVariants[i])},
                            order \in SectionOrders}

InitSections ==
    /\ fn = "generate_css"
    /\ arg \in {[data |-> d, today |-> t] : d \in OrderedDocs, t \in Dates}
    /\ ret = NoRet
    /\ IdleRun

NextSections == CallGenerateCss

SpecSections == InitSections /\ [][NextSections]_vars

(***************************************************************************)
(* Properties of the stylesheet                                            *)
(***************************************************************************)
\* the lines of the ':root' block of the stylesheet returned
RootBlock ==
    LET lines == Split(ret.val.val, NL)
        open == CHOOSE i \in 1..Len(lines) : lines[i] = <<":","r","o","o","t"," ","{">> /\ \A j \in 1..(i - 1) : lines[j] # <<":","r","o","o","t"," ","{">>
        close == CHOOSE i \in (open + 1)..Len(lines) : lines[i] = <<"}">> /\ \A j \in (open + 1)..(i - 1) : lines[j] # <<"}">>
    IN  SubSeq(lines, open + 1, close - 1)

\* the sections of the stylesheet in their order, with their headers
StyleSections == <<<<"c","o","l","o","r">>, <<"t","y","p","o","g","r","a","p","h","y">>, <<"s","p","a","c","i","n","g">>, <<"b","o","r","d","e","r","R","a","d","i","u","s">>, <<"s","h","a","d","o","w">>>>

SectionHeader(section) ==
    CASE section = <<"c","o","l","o","r">> -> <<" "," ","/","*"," ","C","o","l","o","r","s"," ","*","/">>
      [] section = <<"t","y","p","o","g","r","a","p","h","y">> -> <<" "," ","/","*"," ","T","y","p","o","g","r","a","p","h","y"," ","*","/">>
      [] section = <<"s","p","a","c","i","n","g">> -> <<" "," ","/","*"," ","S","p","a","c","i","n","g"," ","*","/">>
      [] section = <<"b","o","r","d","e","r","R","a","d","i","u","s">> -> <<" "," ","/","*"," ","B","o","r","d","e","r"," ","R","a","d","i","u","s"," ","*","/">>
      [] OTHER -> <<" "," ","/","*"," ","S","h","a","d","o","w","s"," ","*","/">>

\* where the lines of a block are a text
LinesAt(block, text) == {i \in 1..Len(block) : block[i] = text}

\* the declaration of a token is in the block under the header of its
\* section: after it, with no header of another section in between
UnderOwnHeader(block, tk) ==
    \E i \in LinesAt(block, <<" "," ">> \o tk.css_name \o <<":"," ">> \o tk.value \o <<";">>) :
        \E h \in LinesAt(block, SectionHeader(tk.section)) :
            /\ h < i
            /\ \A x \in Range(StyleSections) : \A g \in LinesAt(block, SectionHeader(x)) : ~(h < g /\ g < i)

\* C23: in the ':root' block generate_css returns, every token is declared
\* under the header of its section, a header is there once when its section
\* has a token and not at all when it has none, and the headers come in the
\* order color, typography, spacing, borderRadius, shadow whatever the
\* order of the sections in the document; color.primary = #FF0000 and
\* spacing.4 = 16px give '--color-primary: #FF0000;' and '--space-4: 1rem;'
C23_SectionsInOrder ==
    (fn = "generate_css" /\ ret.done /\ ~ret.val.raised /\ ~collect_tokens(arg.data).raised) =>
        LET block == RootBlock
            tokens == collect_tokens(arg.data).val
        IN  /\ \A i \in 1..Len(tokens) : UnderOwnHeader(block, tokens[i])
            /\ \A x \in Range(StyleSections) :
                   Cardinality(LinesAt(block, SectionHeader(x))) = IF \E i \in 1..Len(tokens) : tokens[i].section = x THEN 1 ELSE 0
            /\ \A a, b \in 1..Len(StyleSections) :
                   a < b => \A g \in LinesAt(block, SectionHeader(StyleSections[a])) :
                                \A h \in LinesAt(block, SectionHeader(StyleSections[b])) : g < h
            /\ (HasKey(arg.data, <<"c","o","l","o","r">>) /\ GetKey(arg.data, <<"c","o","l","o","r">>) = JDict(<<Mem(<<"p","r","i","m","a","r","y">>, Tok(<<"#","F","F","0","0","0","0">>, <<"c","o","l","o","r">>)), ColorB>>)) =>
                   LinesAt(block, <<" "," ","-","-","c","o","l","o","r","-","p","r","i","m","a","r","y",":"," ","#","F","F","0","0","0","0",";">>) # {}
            /\ (HasKey(arg.data, <<"s","p","a","c","i","n","g">>) /\ GetKey(arg.data, <<"s","p","a","c","i","n","g">>) = JDict(<<Space4>>)) =>
                   LinesAt(block, <<" "," ","-","-","s","p","a","c","e","-","4",":"," ","1","r","e","m",";">>) # {}

\* the stylesheet of a document with its shadow before its spacing before
\* its color has the three headers in the fixed order
C23_Witness ==
    /\ fn = "generate_css" /\ ret.done /\ ~ret.val.raised
    /\ Len(arg.data.v) > 3 /\ arg.data.v[2].k = <<"s","h","a","d","o","w">> /\ arg.data.v[Len(arg.data.v)].k = <<"c","o","l","o","r">>
    /\ LinesAt(RootBlock, <<" "," ","-","-","c","o","l","o","r","-","p","r","i","m","a","r","y",":"," ","#","F","F","0","0","0","0",";">>) = {2}
    /\ LinesAt(RootBlock, <<" "," ","-","-","s","p","a","c","e","-","4",":"," ","1","r","e","m",";">>) # {}
    /\ LinesAt(RootBlock, <<" "," ","/","*"," ","S","h","a","d","o","w","s"," ","*","/">>) # {}

(***************************************************************************)
(* Calls of the color functions of the backends on a document with one     *)
(* color of six hexadecimal digits                                         *)
(***************************************************************************)
\* the digits a color is made of
ColorDigits == {"0", "a", "F"}

ColorTexts == {<<"#", r1, r2, g1, g2, b1, b2>> : r1 \in ColorDigits, r2 \in ColorDigits, g1 \in ColorDigits,
                                              g2 \in ColorDigits, b1 \in ColorDigits, b2 \in ColorDigits}

ColorFns == {"generate_css", "generate_compose_color", "generate_xml_colors", "generate_swiftui", "generate_uikit"}

InitColors ==
    /\ fn \in ColorFns
    /\ arg \in {[data |-> Doc(<<Mem(<<"p","r","i","m","a","r","y">>, Tok(text, <<"c","o","l","o","r">>))>>, <<FontBody, FontSizeLg>>, <<Space4>>, <<RadiusFull>>, <<ShadowSm>>),
                 color |-> text, today |-> t] : text \in ColorTexts, t \in Dates}
    /\ ret = NoRet
    /\ IdleRun

NextColors ==
    \/ CallGenerateCss
    \/ CallGenerateComposeColor
    \/ CallGenerateXmlColors
    \/ CallGenerateSwiftui
    \/ CallGenerateUikit

SpecColors == InitColors /\ [][NextColors]_vars

(***************************************************************************)
(* Properties of the colors                                                *)
(***************************************************************************)
\* a hexadecimal digit in upper case
UpperDigit(c) ==
    CASE c = "a" -> "A" [] c = "b" -> "B" [] c = "c" -> "C" [] c = "d" -> "D" [] c = "e" -> "E" [] c = "f" -> "F" [] OTHER -> c

\* the six digits of a color in upper case
UpperDigits(text) == [i \in 1..(Len(text) - 1) |-> UpperDigit(text[i + 1])]

\* C24: the color '#RRGGBB' is in Color.kt '0xFF' and its six digits in
\* upper case, in colors.xml '#FF' and its six digits in upper case, and in
\* the stylesheet and in the Swift files the value itself
C24_ColorDigitsKept ==
    (fn \in ColorFns /\ ret.done /\ "color" \in DOMAIN arg) =>
        /\ ~ret.val.raised
        /\ CASE fn = "generate_compose_color" -> Contains(ret.val.val, <<"v","a","l"," ","P","r","i","m","a","r","y"," ","="," ","C","o","l","o","r","(","0","x","F","F">> \o UpperDigits(arg.color) \o <<")","\n">>)
             [] fn = "generate_xml_colors" ->
                    Contains(ret.val.val, <<"<","c","o","l","o","r"," ","n","a","m","e","=","\"","p","r","i","m","a","r","y","\"",">","#","F","F">> \o UpperDigits(arg.color) \o <<"<","/","c","o","l","o","r",">","\n">>)
             [] fn = "generate_css" -> Contains(ret.val.val, <<" "," ","-","-","c","o","l","o","r","-","p","r","i","m","a","r","y",":"," ">> \o arg.color \o <<";","\n">>)
             [] fn = "generate_swiftui" -> Contains(ret.val.val, <<" "," "," "," ","s","t","a","t","i","c"," ","l","e","t"," ","p","r","i","m","a","r","y"," ","="," ","C","o","l","o","r","(","h","e","x",":"," ","\"">> \o arg.color \o <<"\"",")","\n">>)
             [] OTHER -> Contains(ret.val.val, <<" "," "," "," "," "," "," "," ","s","t","a","t","i","c"," ","l","e","t"," ","p","r","i","m","a","r","y"," ","="," ","U","I","C","o","l","o","r","(","h","e","x",":"," ","\"">> \o arg.color \o <<"\"",")","\n">>)

\* Color.kt has been generated for a color with digits in lower case
C24_Witness ==
    /\ fn = "generate_compose_color" /\ ret.done /\ "color" \in DOMAIN arg
    /\ arg.color = <<"#","a","0","F","a","0","F">>
    /\ Contains(ret.val.val, <<"C","o","l","o","r","(","0","x","F","F","A","0","F","A","0","F",")">>)

(***************************************************************************)
(* Calls of the naming functions on documents whose tokens come in any     *)
(* shape and place                                                         *)
(***************************************************************************)
ColorX == Mem(<<"x">>, Tok(<<"#","F","F","0","0","0","0">>, <<"c","o","l","o","r">>))

NamedColors ==
    { <<ColorA>>, <<ColorX>>,
      <<Mem(<<"a">>, Obj1(<<"v","a","l","u","e">>, JStr(<<"#","F","F","0","0","0","0">>)))>>,
      <<Mem(<<"a">>, Obj1(<<"d","e","e","p">>, Tok(<<"#","F","F","0","0","0","0">>, <<"c","o","l","o","r">>)))>> }

NamedTypography ==
    { <<FontSizeLg>>,
      <<Mem(<<"f","o","n","t","-","s","i","z","e","-","l","g">>, Tok(<<"2","0","p","x">>, <<"d","i","m","e","n","s","i","o","n">>)), FontSizeLg>>,
      <<Mem(<<"c","o","l","o","r">>, Obj1(<<"x">>, Tok(<<"#","0","0","F","F","0","0">>, <<"c","o","l","o","r">>)))>>,
      <<FontSizeLg, Mem(<<"f","o","n","t","-","s","o","u","r","c","e">>, Obj1(<<"b","o","d","y">>, Tok(<<"h","t","t","p","s",":","/","/","f",".","e","x","a","m","p","l","e","/","a",".","c","s","s">>, <<"f","o","n","t","S","o","u","r","c","e">>)))>>,
      <<Mem(<<"f","o","n","t","-","s","i","z","e">>, Obj1(<<"l","g">>, Obj1(<<"v","a","l","u","e">>, JStr(<<"2","4","p","x">>))))>>,
      <<Mem(<<"f","o","n","t","-","s","i","z","e">>, Obj1(<<"l","g">>, Obj1(<<"d","e","e","p">>, Tok(<<"2","4","p","x">>, <<"d","i","m","e","n","s","i","o","n">>))))>> }

NamedSpacing == {<<Space4>>, <<>>}

\* a section that is none of the six
NamedExtras == {<<>>, <<Mem(<<"e","x","t","r","a">>, Obj1(<<"a">>, Tok(<<"#","F","F","0","0","0","0">>, <<"c","o","l","o","r">>)))>>}

NamedDocs ==
    {JDict(Doc(c, ty, sp, <<RadiusFull>>, <<ShadowSm>>).v \o e) : c \in NamedColors, ty \in NamedTypography, sp \in NamedSpacing, e \in NamedExtras}

InitNames ==
    /\ fn \in {"build_token_map", "collect_tokens", "collect_token_paths"}
    /\ arg \in {[data |-> d] : d \in NamedDocs}
    /\ ret = NoRet
    /\ IdleRun

CallCollectTokens ==
    /\ fn = "collect_tokens" /\ ~ret.done
    /\ ret' = [done |-> TRUE, val |-> collect_tokens(arg.data)]
    /\ UNCHANGED <<fn, arg, runVars>>

NextNames == CallBuildTokenMap \/ CallCollectTokens \/ CallCollectTokenPaths

SpecNames == InitNames /\ [][NextNames]_vars

(***************************************************************************)
(* Properties of the names and the paths                                   *)
(***************************************************************************)
\* the custom properties the ':root' block of generate_css declares
DeclaredNames(d) == {tk.css_name : tk \in Range(collect_tokens(d).val)}

\* C27: every variable reference in the values of the map build_token_map
\* returns names a custom property that collect_tokens emits for the same
\* document
C27_MapNamesDeclared ==
    (fn = "build_token_map" /\ ret.done /\ ~ret.val.raised /\ ~collect_tokens(arg.data).raised) =>
        \A path \in DOMAIN ret.val.val : \E name \in DeclaredNames(arg.data) : ret.val.val[path] = VarRef(name)

\* C28: no two of the tokens collect_tokens collects from a document have
\* the same CSS variable name
C28_NamesInjective ==
    (fn = "collect_tokens" /\ ret.done /\ ~ret.val.raised) =>
        \A i, j \in 1..Len(ret.val.val) : i # j => ret.val.val[i].css_name # ret.val.val[j].css_name

\* C29: the paths _collect_token_paths returns for a document are the keys
\* of the map build_token_map returns for it
C29_PathsAgree ==
    (fn = "collect_token_paths" /\ ret.done /\ ~build_token_map(arg.data).raised) =>
        ret.val = DOMAIN build_token_map(arg.data).val

(***************************************************************************)
(* Runs of the four tools: main() of validate_tokens.py, generate_css.py,  *)
(* generate_kotlin.py and generate_swift.py.  stdout and stderr hold the   *)
(* text of each print call, files what was written, exitCode is -1 while   *)
(* the run goes on.                                                        *)
(***************************************************************************)
MaxRunFaults == 1

Generators == {"generate_css", "generate_kotlin", "generate_swift"}

Tools == {"validate_tokens"} \cup Generators

\* the JSON texts that are no object
NonObjects == <<JList(<<>>), JStr(<<"m","e","t","a">>), JInt(5), JNull>>

\* the choices of the documents of the runs, and the document of a choice
RunChoices == UNION {Choices(F) : F \in {G \in SUBSET (1..Len(Variants)) : Cardinality(G) <= MaxRunFaults}}

\* the file at the path: missing, no JSON text, or the text of a JSON value
Inputs ==
    {[path |-> <<"t","o","k","e","n","s",".","j","s","o","n">>, exists |-> FALSE, parses |-> FALSE, doc |-> JNull, detail |-> <<>>, today |-> t] : t \in Dates}
    \cup {[path |-> <<"t","o","k","e","n","s",".","j","s","o","n">>, exists |-> TRUE, parses |-> FALSE, doc |-> JNull,
           detail |-> <<"E","x","p","e","c","t","i","n","g"," ","v","a","l","u","e",":"," ","l","i","n","e"," ","1"," ","c","o","l","u","m","n"," ","1"," ","(","c","h","a","r"," ","0",")">>, today |-> t] : t \in Dates}
    \cup {[path |-> <<"t","o","k","e","n","s",".","j","s","o","n">>, exists |-> TRUE, parses |-> TRUE, doc |-> DocOf(c), detail |-> <<>>, today |-> t] :
             c \in RunChoices, t \in Dates}
    \cup {[path |-> <<"t","o","k","e","n","s",".","j","s","o","n">>, exists |-> TRUE, parses |-> TRUE, doc |-> NonObjects[i], detail |-> <<>>, today |-> t] :
             i \in 1..Len(NonObjects), t \in Dates}

\* the flags of a command line of a mobile generator
FlagLines(a, b) == {<<>>, <<a>>, <<b>>, <<a, b>>, <<b, a>>}

\* the command lines: sys.argv of the validator, the parsed arguments of a
\* generator, for a mobile generator with sys.argv they are parsed from
ArgsOf(t) ==
    CASE t = "validate_tokens" ->
           {[argv |-> <<<<"v","a","l","i","d","a","t","e","_","t","o","k","e","n","s",".","p","y">>>> \o paths] : paths \in {<<>>, <<<<"t","o","k","e","n","s",".","j","s","o","n">>>>, <<<<"t","o","k","e","n","s",".","j","s","o","n">>, <<"e","x","t","r","a">>>>}}
      [] t = "generate_css" ->
           {[format |-> f, components |-> c, output |-> o] : f \in {"css", "scss"}, c \in BOOLEAN, o \in {<<>>, <<"o","u","t",".","c","s","s">>}}
      [] t = "generate_kotlin" ->
           {[argv |-> <<<<"g","e","n","e","r","a","t","e","_","k","o","t","l","i","n",".","p","y">>, <<"t","o","k","e","n","s",".","j","s","o","n">>>> \o flags \o (IF o = <<>> THEN <<>> ELSE <<<<"-","-","o","u","t","p","u","t">>, o>>),
             compose |-> <<"-","-","c","o","m","p","o","s","e">> \in Range(flags), xml |-> <<"-","-","x","m","l">> \in Range(flags), output |-> o] :
                flags \in FlagLines(<<"-","-","c","o","m","p","o","s","e">>, <<"-","-","x","m","l">>), o \in {<<>>, <<"o","u","t">>}}
      [] OTHER ->
           {[argv |-> <<<<"g","e","n","e","r","a","t","e","_","s","w","i","f","t",".","p","y">>, <<"t","o","k","e","n","s",".","j","s","o","n">>>> \o flags \o (IF o = <<>> THEN <<>> ELSE <<<<"-","-","o","u","t","p","u","t">>, o>>),
             swiftui |-> <<"-","-","s","w","i","f","t","u","i">> \in Range(flags), uikit |-> <<"-","-","u","i","k","i","t">> \in Range(flags), output |-> o] :
                flags \in FlagLines(<<"-","-","s","w","i","f","t","u","i">>, <<"-","-","u","i","k","i","t">>), o \in {<<>>, <<"o","u","t">>}}

NoData == [loaded |-> FALSE, doc |-> JNull]

Init ==
    /\ fn = "main" /\ arg = <<>> /\ ret = NoRet
    /\ pc = "start"
    /\ tool \in Tools
    /\ args \in ArgsOf(tool)
    /\ input \in Inputs
    /\ (tool = "validate_tokens" /\ Len(args.argv) # 2) => ~input.exists
    /\ data = NoData
    /\ errors = <<>>
    /\ outputs = <<>>
    /\ stdout = <<>>
    /\ stderr = <<>>
    /\ files = <<>>
    /\ exitCode = -1

\* sys.exit(code)
Exit(code) == pc' = "exited" /\ exitCode' = code

\* an exception that nothing catches: the traceback, and exit code 1
Crash ==
    /\ pc' = "crashed"
    /\ exitCode' = 1
    /\ stderr' = Append(stderr, <<"T","r","a","c","e","b","a","c","k"," ","(","m","o","s","t"," ","r","e","c","e","n","t"," ","c","a","l","l"," ","l","a","s","t",")",":">>)

\* print(text) of an input error: the validator prints to standard output,
\* the generators to standard error
InputError(text) ==
    /\ IF tool = "validate_tokens" THEN stdout' = Append(stdout, text) /\ UNCHANGED stderr
                                   ELSE stderr' = Append(stderr, text) /\ UNCHANGED stdout
    /\ Exit(2)

\* the lines of a list of errors
Bullets(errs) == [i \in 1..Len(errs) |-> <<" "," ","-"," ">> \o errs[i]]

\* the command line read without the default of the first variant
ParseArgs_without_default ==
    /\ pc = "start"
    /\ IF tool = "validate_tokens" /\ Len(args.argv) # 2
       THEN /\ stdout' = Append(stdout, <<"U","s","a","g","e",":"," ","p","y","t","h","o","n","3"," ","v","a","l","i","d","a","t","e","_","t","o","k","e","n","s",".","p","y"," ","<","p","a","t","h","-","t","o","-","j","s","o","n","-","f","i","l","e",">">>)
            /\ Exit(2)
            /\ UNCHANGED stderr
       ELSE pc' = "read" /\ UNCHANGED <<exitCode, stdout, stderr>>
    /\ UNCHANGED <<callVars, tool, args, input, data, errors, outputs, files>>

\* the command line: the validator wants one path, a mobile generator
\* without a flag makes the first variant
ParseArgs ==
    /\ pc = "start"
    /\ IF tool = "validate_tokens" /\ Len(args.argv) # 2
       THEN /\ stdout' = Append(stdout, <<"U","s","a","g","e",":"," ","p","y","t","h","o","n","3"," ","v","a","l","i","d","a","t","e","_","t","o","k","e","n","s",".","p","y"," ","<","p","a","t","h","-","t","o","-","j","s","o","n","-","f","i","l","e",">">>)
            /\ Exit(2)
            /\ UNCHANGED <<args, stderr>>
       ELSE /\ args' = CASE tool = "generate_kotlin" /\ ~args.compose /\ ~args.xml -> [args EXCEPT !.compose = TRUE]
                         [] tool = "generate_swift" /\ ~args.swiftui /\ ~args.uikit -> [args EXCEPT !.swiftui = TRUE]
                         [] OTHER -> args
            /\ pc' = "read"
            /\ UNCHANGED <<exitCode, stdout, stderr>>
    /\ UNCHANGED <<callVars, tool, input, data, errors, outputs, files>>

\* path.exists()
CheckExists ==
    /\ pc = "read"
    /\ IF ~input.exists
       THEN InputError(<<"E","r","r","o","r",":"," ","F","i","l","e"," ","n","o","t"," ","f","o","u","n","d",":"," ">> \o input.path)
       ELSE pc' = "parse" /\ UNCHANGED <<exitCode, stdout, stderr>>
    /\ UNCHANGED <<callVars, tool, args, input, data, errors, outputs, files>>

\* json.loads(path.read_text()), with the file read again when it is no
\* JSON text
LoadJson_reading_again ==
    /\ pc = "parse"
    /\ IF ~input.parses
       THEN pc' = "read" /\ UNCHANGED <<data, exitCode, stdout, stderr>>
       ELSE /\ data' = [loaded |-> TRUE, doc |-> input.doc]
            /\ pc' = IF tool = "validate_tokens" THEN "validate" ELSE "check"
            /\ UNCHANGED <<exitCode, stdout, stderr>>
    /\ UNCHANGED <<callVars, tool, args, input, errors, outputs, files>>

\* json.loads(path.read_text())
LoadJson ==
    /\ pc = "parse"
    /\ IF ~input.parses
       THEN InputError(<<"E","r","r","o","r",":"," ","I","n","v","a","l","i","d"," ","J","S","O","N",":"," ">> \o input.detail) /\ UNCHANGED data
       ELSE /\ data' = [loaded |-> TRUE, doc |-> input.doc]
            /\ pc' = IF tool = "validate_tokens" THEN "validate" ELSE "check"
            /\ UNCHANGED <<exitCode, stdout, stderr>>
    /\ UNCHANGED <<callVars, tool, args, input, errors, outputs, files>>

\* isinstance(data, dict), of the generators
CheckObject ==
    /\ pc = "check"
    /\ IF ~IsDict(data.doc)
       THEN InputError(<<"E","r","r","o","r",":"," ","T","o","k","e","n"," ","f","i","l","e"," ","m","u","s","t"," ","c","o","n","t","a","i","n"," ","a"," ","J","S","O","N"," ","o","b","j","e","c","t">>)
       ELSE pc' = "validate" /\ UNCHANGED <<exitCode, stdout, stderr>>
    /\ UNCHANGED <<callVars, tool, args, input, data, errors, outputs, files>>

\* errors = validate_required_sections(data), of the generators
ValidateSections ==
    /\ pc = "validate" /\ tool \in Generators
    /\ LET r == validate_required_sections(data.doc)
       IN  IF r.raised THEN Crash /\ UNCHANGED errors
           ELSE /\ errors' = r.val
                /\ IF r.val # <<>>
                   THEN /\ stderr' = stderr \o <<<<"V","a","l","i","d","a","t","i","o","n"," ","f","a","i","l","e","d"," ","w","i","t","h"," ">> \o NatStr(Len(r.val)) \o <<" ","e","r","r","o","r","(","s",")",":">>>> \o Bullets(r.val)
                        /\ Exit(1)
                   ELSE pc' = "generate" /\ UNCHANGED <<exitCode, stderr>>
    /\ UNCHANGED <<callVars, tool, args, input, data, outputs, stdout, files>>

\* errors = validate(data), of the validator
RunValidate ==
    /\ pc = "validate" /\ tool = "validate_tokens"
    /\ LET r == validate(data.doc)
       IN  IF r.raised THEN Crash /\ UNCHANGED errors
           ELSE errors' = r.val /\ pc' = "report" /\ UNCHANGED <<exitCode, stderr>>
    /\ UNCHANGED <<callVars, tool, args, input, data, outputs, stdout, files>>

\* the report of the validator
Report ==
    /\ pc = "report"
    /\ IF errors # <<>>
       THEN /\ stdout' = stdout \o <<<<"V","a","l","i","d","a","t","i","o","n"," ","f","a","i","l","e","d"," ","w","i","t","h"," ">> \o NatStr(Len(errors)) \o <<" ","e","r","r","o","r","(","s",")",":","\n">>>> \o Bullets(errors)
            /\ Exit(1)
       ELSE /\ stdout' = Append(stdout, <<"V","a","l","i","d","a","t","i","o","n"," ","p","a","s","s","e","d","."," ","A","l","l"," ","t","o","k","e","n","s"," ","c","o","n","f","o","r","m"," ","t","o"," ","t","h","e"," ","s","c","h","e","m","a",".">>)
            /\ Exit(0)
    /\ UNCHANGED <<callVars, tool, args, input, data, errors, outputs, stderr, files>>

\* the artifacts, or a crash when a generation function raises
Generated(results) ==
    IF \E i \in 1..Len(results) : results[i].content.raised THEN Crash /\ UNCHANGED outputs
    ELSE /\ outputs' = [i \in 1..Len(results) |-> [name |-> results[i].name, content |-> results[i].content.val]]
         /\ pc' = "emit"
         /\ UNCHANGED <<exitCode, stderr>>

\* the stylesheet of generate_css.py, with the component classes when asked
Stylesheet ==
    Then(IF args.format = "scss" THEN generate_scss(data.doc, input.today) ELSE generate_css(data.doc, input.today), LAMBDA output :
        IF ~args.components THEN Ok(output)
        ELSE Then(build_token_map(data.doc), LAMBDA token_map :
             Then(generate_component_classes(data.doc, token_map, args.format), LAMBDA comp_output :
                 IF comp_output = <<>> THEN Ok(output) ELSE Ok(RStrip(output, {NL}) \o <<"\n","\n">> \o comp_output))))

GenerateCss ==
    /\ pc = "generate" /\ tool = "generate_css"
    /\ Generated(<<[name |-> args.output, content |-> Stylesheet]>>)
    /\ UNCHANGED <<callVars, tool, args, input, data, errors, stdout, files>>

\* the artifacts of generate_kotlin.py in the order of the flags on the
\* command line
GenerateKotlin_in_flag_order ==
    /\ pc = "generate" /\ tool = "generate_kotlin"
    /\ LET compose == IF args.compose
                      THEN <<[name |-> <<"C","o","l","o","r",".","k","t">>, content |-> generate_compose_color(data.doc, input.today)],
                             [name |-> <<"T","y","p","e",".","k","t">>, content |-> generate_compose_type(data.doc, input.today)],
                             [name |-> <<"S","h","a","p","e",".","k","t">>, content |-> generate_compose_shape(data.doc, input.today)],
                             [name |-> <<"T","h","e","m","e",".","k","t">>, content |-> generate_compose_theme(data.doc, input.today)],
                             [name |-> <<"D","i","m","e","n","s",".","k","t">>, content |-> generate_compose_dimens(data.doc, input.today)]>>
                      ELSE <<>>
           xml == IF args.xml
                  THEN <<[name |-> <<"c","o","l","o","r","s",".","x","m","l">>, content |-> generate_xml_colors(data.doc, input.today)],
                         [name |-> <<"d","i","m","e","n","s",".","x","m","l">>, content |-> generate_xml_dimens(data.doc, input.today)],
                         [name |-> <<"s","t","y","l","e","s",".","x","m","l">>, content |-> generate_xml_styles(data.doc, input.today)],
                         [name |-> <<"t","h","e","m","e","s",".","x","m","l">>, content |-> generate_xml_themes(data.doc, input.today)]>>
                  ELSE <<>>
       IN  Generated(IF Len(args.argv) > 2 /\ args.argv[3] = <<"-","-","x","m","l">> THEN xml \o compose ELSE compose \o xml)
    /\ UNCHANGED <<callVars, tool, args, input, data, errors, stdout, files>>

GenerateKotlin ==
    /\ pc = "generate" /\ tool = "generate_kotlin"
    /\ Generated((IF args.compose
                  THEN <<[name |-> <<"C","o","l","o","r",".","k","t">>, content |-> generate_compose_color(data.doc, input.today)],
                         [name |-> <<"T","y","p","e",".","k","t">>, content |-> generate_compose_type(data.doc, input.today)],
                         [name |-> <<"S","h","a","p","e",".","k","t">>, content |-> generate_compose_shape(data.doc, input.today)],
                         [name |-> <<"T","h","e","m","e",".","k","t">>, content |-> generate_compose_theme(data.doc, input.today)],
                         [name |-> <<"D","i","m","e","n","s",".","k","t">>, content |-> generate_compose_dimens(data.doc, input.today)]>>
                  ELSE <<>>)
                 \o (IF args.xml
                     THEN <<[name |-> <<"c","o","l","o","r","s",".","x","m","l">>, content |-> generate_xml_colors(data.doc, input.today)],
                            [name |-> <<"d","i","m","e","n","s",".","x","m","l">>, content |-> generate_xml_dimens(data.doc, input.today)],
                            [name |-> <<"s","t","y","l","e","s",".","x","m","l">>, content |-> generate_xml_styles(data.doc, input.today)],
                            [name |-> <<"t","h","e","m","e","s",".","x","m","l">>, content |-> generate_xml_themes(data.doc, input.today)]>>
                     ELSE <<>>))
    /\ UNCHANGED <<callVars, tool, args, input, data, errors, stdout, files>>

GenerateSwift ==
    /\ pc = "generate" /\ tool = "generate_swift"
    /\ Generated((IF args.swiftui THEN <<[name |-> <<"D","e","s","i","g","n","T","o","k","e","n","s",".","s","w","i","f","t">>, content |-> generate_swiftui(data.doc, input.today)]>> ELSE <<>>)
                 \o (IF args.uikit THEN <<[name |-> <<"T","h","e","m","e",".","s","w","i","f","t">>, content |-> generate_uikit(data.doc, input.today)]>> ELSE <<>>))
    /\ UNCHANGED <<callVars, tool, args, input, data, errors, stdout, files>>

\* args.output given: the stylesheet to the path, the files of a mobile
\* generator into the directory, and a line for each
WriteOutputs ==
    /\ pc = "emit" /\ args.output # <<>>
    /\ LET out_path(i) == IF tool = "generate_css" THEN args.output ELSE args.output \o <<"/">> \o outputs[i].name
           label(i) == IF tool = "generate_css" THEN Upper(IF args.format = "scss" THEN <<"s","c","s","s">> ELSE <<"c","s","s">>) ELSE outputs[i].name
       IN  /\ files' = files \o [i \in 1..Len(outputs) |-> [path |-> out_path(i), content |-> outputs[i].content]]
           /\ stdout' = stdout \o [i \in 1..Len(outputs) |-> <<"G","e","n","e","r","a","t","e","d"," ">> \o label(i) \o <<" ","w","r","i","t","t","e","n"," ","t","o"," ">> \o out_path(i)]
    /\ pc' = "exited" /\ exitCode' = 0
    /\ UNCHANGED <<callVars, tool, args, input, data, errors, outputs, stderr>>

\* no args.output: the artifacts to standard output, each of several after
\* a line with its name
PrintOutputs ==
    /\ pc = "emit" /\ args.output = <<>>
    /\ stdout' = stdout \o Flatten([i \in 1..Len(outputs) |->
                    (IF tool # "generate_css" /\ Len(outputs) > 1 THEN <<<<"/","/"," ","=","=","="," ">> \o outputs[i].name \o <<" ","=","=","=","\n">>>> ELSE <<>>)
                    \o <<outputs[i].content>>])
    /\ pc' = "exited" /\ exitCode' = 0
    /\ UNCHANGED <<callVars, tool, args, input, data, errors, outputs, stderr, files>>

Next ==
    \/ ParseArgs
    \/ CheckExists
    \/ LoadJson
    \/ CheckObject
    \/ ValidateSections
    \/ RunValidate
    \/ Report
    \/ GenerateCss
    \/ GenerateKotlin
    \/ GenerateSwift
    \/ WriteOutputs
    \/ PrintOutputs

Spec == Init /\ [][Next]_vars

(***************************************************************************)
(* Properties of the runs                                                  *)
(***************************************************************************)
Ended == pc \in {"exited", "crashed"}

\* C4: a run of a generator on a document for which validate returns
\* errors ends with exit code 1 and has generated, printed and written
\* nothing
C4_ValidationFailureIsTerminal ==
    (tool \in Generators /\ data.loaded /\ IsDict(data.doc) /\ (pc = "emit" \/ Ended)
       /\ ~validate(data.doc).raised /\ validate(data.doc).val # <<>>)
    => (pc # "emit" /\ exitCode = 1 /\ outputs = <<>> /\ stdout = <<>> /\ files = <<>>)

\* the file is missing, is no JSON text, or is the text of no object
InputFault == ~input.exists \/ ~input.parses \/ ~IsDict(input.doc)

\* the run was given its path
PathGiven == tool = "validate_tokens" => Len(args.argv) = 2

\* C16: a run of any of the four tools on a file that is missing, is no
\* JSON text or is the text of no object ends by exit code 2 after one
\* message, without an exception that nothing catches, and with nothing
\* validated, generated or written
C16_InputErrorsExitTwo ==
    (Ended /\ PathGiven /\ InputFault) =>
        /\ pc = "exited" /\ exitCode = 2
        /\ Len(stdout) + Len(stderr) = 1
        /\ errors = <<>> /\ outputs = <<>> /\ files = <<>>

\* the file of the run was read and parsed
Parsed == input.exists /\ input.parses

\* C17: a run of validate_tokens.py with one path ends with exit code 0, 1
\* or 2: 0 exactly when the file was read and parsed and validate returned
\* the empty list, 1 exactly when validate returned a list with errors, and
\* then standard output holds the line with their number and a bullet for
\* each, 2 exactly when the file is missing or is no JSON text
C17_ValidatorExitCodes ==
    (tool = "validate_tokens" /\ Len(args.argv) = 2 /\ Ended) =>
        /\ exitCode \in {0, 1, 2}
        /\ exitCode = 0 <=> (Parsed /\ validate(input.doc) = Ok(<<>>))
        /\ exitCode = 1 <=> (Parsed /\ ~validate(input.doc).raised /\ validate(input.doc).val # <<>>)
        /\ exitCode = 1 =>
               stdout = <<<<"V","a","l","i","d","a","t","i","o","n"," ","f","a","i","l","e","d"," ","w","i","t","h"," ">> \o NatStr(Len(validate(input.doc).val)) \o <<" ","e","r","r","o","r","(","s",")",":","\n">>>>
                            \o Bullets(validate(input.doc).val)
        /\ exitCode = 2 <=> ~Parsed

Mobile == {"generate_kotlin", "generate_swift"}

\* the run of a mobile generator has built its artifacts
Emitting == tool \in Mobile /\ (pc = "emit" \/ (pc = "exited" /\ exitCode = 0))

\* the flag is on the command line
Given(flag) == flag \in Range(args.argv)

\* the names of the artifacts of the two variants
VariantA == IF tool = "generate_kotlin" THEN <<<<"C","o","l","o","r",".","k","t">>, <<"T","y","p","e",".","k","t">>, <<"S","h","a","p","e",".","k","t">>, <<"T","h","e","m","e",".","k","t">>, <<"D","i","m","e","n","s",".","k","t">>>> ELSE <<<<"D","e","s","i","g","n","T","o","k","e","n","s",".","s","w","i","f","t">>>>

VariantB == IF tool = "generate_kotlin" THEN <<<<"c","o","l","o","r","s",".","x","m","l">>, <<"d","i","m","e","n","s",".","x","m","l">>, <<"s","t","y","l","e","s",".","x","m","l">>, <<"t","h","e","m","e","s",".","x","m","l">>>> ELSE <<<<"T","h","e","m","e",".","s","w","i","f","t">>>>

FlagA == IF tool = "generate_kotlin" THEN <<"-","-","c","o","m","p","o","s","e">> ELSE <<"-","-","s","w","i","f","t","u","i">>

FlagB == IF tool = "generate_kotlin" THEN <<"-","-","x","m","l">> ELSE <<"-","-","u","i","k","i","t">>

OutputNames == [i \in 1..Len(outputs) |-> outputs[i].name]

\* the lines of standard output that are the banner of a file name
Banners == SelectSeq(stdout, LAMBDA line : StartsWith(line, <<"/","/"," ","=","=","="," ">>) /\ EndsWith(line, <<" ","=","=","=","\n">>))

\* C18: a mobile generator without a variant flag makes the artifacts of
\* the first variant and none of the second, with the flag of the second
\* alone those of the second and none of the first; the artifacts it emits
\* are never none; and printed artifacts come each after the banner of its
\* name exactly when they are more than one
C18_VariantSelection ==
    Emitting =>
        /\ (~Given(FlagA) /\ ~Given(FlagB)) => OutputNames = VariantA
        /\ (~Given(FlagA) /\ Given(FlagB)) => OutputNames = VariantB
        /\ outputs # <<>>
        /\ (pc = "exited" /\ args.output = <<>>) =>
               IF Len(outputs) > 1
               THEN /\ Len(stdout) = 2 * Len(outputs)
                    /\ \A i \in 1..Len(outputs) :
                           /\ stdout[2 * i - 1] = <<"/","/"," ","=","=","="," ">> \o outputs[i].name \o <<" ","=","=","=","\n">>
                           /\ stdout[2 * i] = outputs[i].content
               ELSE Banners = <<>> /\ stdout = <<outputs[1].content>>
        /\ (pc = "exited" /\ args.output # <<>>) =>
               /\ Banners = <<>>
               /\ [i \in 1..Len(files) |-> files[i].path] = [i \in 1..Len(outputs) |-> args.output \o <<"/">> \o outputs[i].name]

\* a run without a flag has printed the one artifact of the first variant,
\* a run with the flag of the second alone has printed its several
\* artifacts after their banners
C18_Witness ==
    /\ Emitting /\ pc = "exited" /\ args.output = <<>>
    /\ \/ tool = "generate_swift" /\ ~Given(FlagA) /\ ~Given(FlagB) /\ Banners = <<>> /\ Len(stdout) = 1
       \/ tool = "generate_kotlin" /\ ~Given(FlagA) /\ Given(FlagB) /\ Len(Banners) = 4

\* what the generation function of an artifact returns for a document and
\* a date
ContentOf(name, d, today) ==
    CASE name = <<"C","o","l","o","r",".","k","t">> -> generate_compose_color(d, today)
      [] name = <<"T","y","p","e",".","k","t">> -> generate_compose_type(d, today)
      [] name = <<"S","h","a","p","e",".","k","t">> -> generate_compose_shape(d, today)
      [] name = <<"T","h","e","m","e",".","k","t">> -> generate_compose_theme(d, today)
      [] name = <<"D","i","m","e","n","s",".","k","t">> -> generate_compose_dimens(d, today)
      [] name = <<"c","o","l","o","r","s",".","x","m","l">> -> generate_xml_colors(d, today)
      [] name = <<"d","i","m","e","n","s",".","x","m","l">> -> generate_xml_dimens(d, today)
      [] name = <<"s","t","y","l","e","s",".","x","m","l">> -> generate_xml_styles(d, today)
      [] name = <<"t","h","e","m","e","s",".","x","m","l">> -> generate_xml_themes(d, today)
      [] name = <<"D","e","s","i","g","n","T","o","k","e","n","s",".","s","w","i","f","t">> -> generate_swiftui(d, today)
      [] OTHER -> generate_uikit(d, today)

Stages == <<"start", "read", "parse", "check", "validate", "generate", "emit">>

StageOf(p) == CHOOSE i \in 1..Len(Stages) : Stages[i] = p

\* how many artifacts the command line asks for
Requested ==
    CASE tool = "generate_kotlin" -> (IF args.compose THEN Len(VariantA) ELSE 0) + (IF args.xml THEN Len(VariantB) ELSE 0)
      [] tool = "generate_swift" -> (IF args.swiftui THEN Len(VariantA) ELSE 0) + (IF args.uikit THEN Len(VariantB) ELSE 0)
      [] OTHER -> 1

\* a step of a run of a generator: to the next stage, or to the end
StageStep ==
    tool \in Generators =>
        /\ pc \in Range(Stages)
        /\ \/ pc' \in Range(Stages) /\ StageOf(pc') = StageOf(pc) + 1 /\ exitCode' = -1
           \/ pc' = "exited" /\ pc = "emit" /\ exitCode' = 0
           \/ pc' \in {"exited", "crashed"} /\ exitCode' \in {1, 2} /\ outputs' = <<>> /\ files' = <<>> /\ stdout' = <<>>
        /\ (files' # files \/ stdout' # stdout) =>
              /\ pc = "emit" /\ outputs' = outputs /\ Len(outputs) = Requested
              /\ \A i \in 1..Len(outputs) :
                     IF args.output # <<>> THEN files'[i].content = outputs[i].content
                     ELSE \E j \in 1..Len(stdout') : stdout'[j] = outputs[i].content

\* C25: a step of a run of a generator goes from a stage to the next one
\* of read, parse, check, validate, generate, emit, or ends the run; a step
\* that fails ends the run with nothing generated or written; and a step
\* writes or prints artifacts only when all the artifacts asked for have
\* been generated, and writes those
C25_LinearPipeline == [][StageStep]_vars

\* a run of generate_kotlin.py has written the nine artifacts it generated
C25_Witness ==
    /\ tool = "generate_kotlin" /\ pc = "exited" /\ exitCode = 0
    /\ Len(outputs) = 9 /\ Len(files) = 9

\* C26: for an object on which validate returns the empty list, every
\* generation function returns, none raises
C26_AcceptedDocumentsEmit ==
    (fn \in GenerateFns /\ ret.done /\ IsDict(arg.data) /\ validate(arg.data) = Ok(<<>>)) => ~ret.val.raised

\* the errors of a list that report a missing section or meta field
MissingPart(errs) == SelectSeq(errs, LAMBDA e : Len(e) > 16 /\ SubSeq(e, 1, 17) = <<"M","i","s","s","i","n","g"," ","r","e","q","u","i","r","e","d"," ">>)

\* C30: for an object, validate_required_sections of the generators and
\* validate both return, and the list of the former is the list of the
\* 'Missing required' errors of the latter, in the same order
C30_RequiredSectionsAgree ==
    (ValidateCall /\ IsDict(arg.data)) =>
        /\ ~validate_required_sections(arg.data).raised
        /\ ~ret.val.raised
        /\ validate_required_sections(arg.data).val = MissingPart(ret.val.val)

=============================================================================
